---- MODULE Spec2Model ----
(***************************************************************************)
(* Model of the CourseraSkipper background service: the task registry      *)
(* (activeTasks), the batch processor (processModuleItems,                 *)
(* processAllModules) and the per-item completion handlers (Watcher,       *)
(* markReadingComplete, GradedLtiHandler).                                 *)
(*                                                                         *)
(* Spec     one batch run, from the start request to its terminal status,  *)
(*          with every handler's network calls as separate steps.          *)
(* SpecReg  the registry under several batch start requests, tab teardown  *)
(*          and purge timers; a handler is one step there.                 *)
(* SpecSolver  the registry under solver start and stop requests, tab      *)
(*          teardown and purge timers.                                     *)
(* SpecGrades  the grade handlers of one programming group against the     *)
(*          course's grade document.                                       *)
(* SpecWatcher  the registry under watcher start and stop requests.         *)
(* SpecTabs  cleanupTasksForTab over the registries the service can hold.  *)
(* SpecHang  the batch run when a fetch may stay unanswered.               *)
(* SpecClassify  the two item classifiers applied to one raw item.         *)
(* SpecModules  getModuleData and getAllModulesData over a course.         *)
(* SpecLive  the batch run when every call is answered.                    *)
(* SpecSolve  GradedSolver.solve, under runSolver and with a connector.    *)
(***************************************************************************)
EXTENDS Integers, Sequences, FiniteSets, TLC

\* ------------------------------------------------------------------ bounds
MaxItems == 3
MaxCourseItems == 2
MaxRuns == 2
MaxGrades == 2
MaxWords == 2
MaxSegs == 2
MaxWeeks == 2
MaxRawItems == 2

\* --------------------------------------------------------- program constants
AFTER_PROGRESS_UPDATE == 3000
StartProgress == 10
WatchProgress == 50
\* grade: 1.0, grades being counted in hundredths
FullGrade == 100
NaN == -1

ItemTypes == {"video", "reading", "quiz", "programming", "peer-review", "unknown"}
\* the order in which the batch processor takes the groups of a module;
\* GroupOrderReadingsFirst is a processor that takes the readings first
GroupOrderReadingsFirst == <<"reading", "video", "programming">>
GroupOrder == <<"video", "reading", "programming">>
Tabs == {1, 2}
\* allModules.length, and the module numbers of a course
ModuleCounts == 0..2
ModuleNumbers == {1}
NoTask == 0

\* item.timeCommitment of the i-th item of a batch (milliseconds)
TimeCommitment(i) == i * 60000

\* ---------------------------------------------------------------- task keys
ModuleKey(n) == <<"module", n>>
AllModulesKey == <<"all-modules", 0>>
SolverKey(n) == <<"solver", n>>
WatcherKey(n) == <<"watcher", n>>
Keys ==
    {ModuleKey(n) : n \in ModuleNumbers} \cup {AllModulesKey} \cup {SolverKey(1)}
        \cup {WatcherKey(1)}

\* ------------------------------------------------------------------- state
VARIABLES
    activeTasks,    \* Map<string, ActiveTask>: key -> index into tasks, NoTask when absent
    tasks,          \* the ActiveTask objects ever created
    timers,         \* pending purge timers (setTimeout 60000), a count per key
    pc,             \* position of the batch run
    mode,           \* "module" (processModuleItems) or "all" (processAllModules)
    runKey,         \* taskKey of the run
    runTask,        \* the task object the run captured (const task = activeTasks.get)
    items,          \* the batch's items: [type, mod], mod the module position
    nMods,          \* allModules.length (1 in module mode)
    completedCount, \* the run's local counter (completedCount / completedItems)
    pos,            \* the group being awaited: (module - 1) * 3 + stage
    h,              \* per item: the handler's position
    log,            \* per item: the calls issued, responses received, timers elapsed
    response,       \* the reply to the last start request answered
    solvers,        \* Map<string, GradedSolver>: the keys it holds
    runs,           \* SpecReg: the runs started (processModuleItems, processAllModules, runSolver)
    pending,        \* SpecReg: handleStartSolver invocations suspended at an await
    grades,         \* SpecGrades: the course's grade document and the GradedLtiHandlers
    watchers,       \* Map<string, Watcher>: the keys it holds
    classified,     \* SpecClassify, SpecModules: the input and the result of the classifier
    gradedSolver    \* SpecSolve: the GradedSolver of a run and the calls of its solve()

vars == <<activeTasks, tasks, timers, pc, mode, runKey, runTask, items, nMods,
          completedCount, pos, h, log, response, solvers, runs, pending, grades,
          watchers, classified, gradedSolver>>
regVars == <<activeTasks, tasks, timers>>
runVars == <<pc, mode, runKey, runTask, items, nMods, completedCount, pos, h, log>>
multiVars == <<solvers, runs, pending, grades, watchers, classified, gradedSolver>>

\* ------------------------------------------------------------ log events
Call(kind, val) == [ev |-> "call", what |-> kind, val |-> val, body |-> ""]
Resp(kind, r) == [ev |-> "resp", what |-> kind, val |-> r.status, body |-> r.body]
Timer(ms) == [ev |-> "timer", what |-> "delay", val |-> ms, body |-> ""]

R(status, body) == [status |-> status, body |-> body]
MetadataResponses == {R(500, ""), R(200, "skip"), R(200, "noskip")}
VideoEventResponses == {R(200, ""), R(204, "")}
ReadingResponses == {R(200, "Completed"), R(200, "other"), R(500, "Completed")}
LaunchResponses == {R(500, ""), R(200, "empty"), R(200, "elements")}
GradesResponses == {R(500, ""), R(200, "grades")}
PutResponses == {R(500, ""), R(200, "")}
UserIdResponses == {R(500, ""), R(200, "empty"), R(200, "id")}

\* Response.ok
Ok(r) == r.status >= 200 /\ r.status <= 299

\* ------------------------------------------------------- the task registry
Msg(text, a, b) == <<text, a, b>>

\* the ActiveTask literal of handleStartModuleSkip / handleStartAllModulesSkip
ModuleTask(tabId, total, message) ==
    [type |-> "module", tabId |-> tabId, status |-> "running", progress |-> 0,
     message |-> message, totalItems |-> total, completedItems |-> 0]

\* Math.round((completed / total) * 100); 0 / 0 is NaN
RoundPct(completed, total) ==
    IF total = 0 THEN NaN ELSE (200 * completed + total) \div (2 * total)

\* updateTaskProgress: the task objects after the call.
\* UpdateEveryTaskProgress is an update that does not look the task up by key.
UpdateEveryTaskProgress(ts, key, progress, message) ==
    [t \in DOMAIN ts |-> [ts[t] EXCEPT !.progress = progress, !.message = message]]
UpdateTaskProgress(ts, key, progress, message) ==
    IF activeTasks[key] = NoTask THEN ts
    ELSE [ts EXCEPT ![activeTasks[key]].progress = progress,
                    ![activeTasks[key]].message = message]

\* updateTaskStatus: the task objects after the call.  UpdateTaskStatusAsError
\* is an update that records every terminal status as error.
UpdateTaskStatusAsError(ts, key, status, message) ==
    IF activeTasks[key] = NoTask THEN ts
    ELSE [ts EXCEPT ![activeTasks[key]].status =
                        IF status = "completed" THEN "error" ELSE status,
                    ![activeTasks[key]].message = message]
UpdateTaskStatus(ts, key, status, message) ==
    IF activeTasks[key] = NoTask THEN ts
    ELSE [ts EXCEPT ![activeTasks[key]].status = status,
                    ![activeTasks[key]].message = message]

\* updateTaskStatus: the purge timers after the call
SchedulePurge(tm, key, status) ==
    IF activeTasks[key] # NoTask /\ status \in {"completed", "error"}
    THEN [tm EXCEPT ![key] = @ + 1] ELSE tm

\* cleanupTasksForTab: the registry after the tab closed
CleanupEveryTab(tabId) == [k \in Keys |-> NoTask]
CleanupTasksForTab(tabId) ==
    [k \in Keys |->
        IF activeTasks[k] # NoTask /\ tasks[activeTasks[k]].tabId = tabId
        THEN NoTask ELSE activeTasks[k]]

\* ------------------------------------------------- handlers: pure decisions
Null == [null |-> TRUE]

\* getVideoMetadata: null, or {can_skip}
GetVideoMetadata(r) ==
    IF ~Ok(r) THEN Null ELSE [null |-> FALSE, can_skip |-> (r.body = "skip")]

\* getUserId: whether an id came back.  GetUserIdAlways is a resolution that
\* never fails.
GetUserIdAlways(r) == TRUE
GetUserId(r) == Ok(r) /\ r.body = "id"

\* Watcher.watchItem: the first call of the handler.  WatchItemAlwaysPlay is a
\* watcher without the can_skip branch.
WatchItemAlwaysPlay(can_skip) == "play"
WatchItemFirst(can_skip) == IF can_skip THEN "end" ELSE "play"

\* Watcher.startItem / updateProgress / endItem: the status each accepts.
\* StartItemAnyOk and UpdateProgressAnyOk accept every 2xx status (response.ok).
StartItemAnyOk(r) == Ok(r)
UpdateProgressAnyOk(r) == Ok(r)
StartItemOk(r) == r.status = 200
UpdateProgressOk(r) == r.status = 204
EndItemOk(r) == r.status = 200

\* markReadingComplete: text.includes("Completed").  MarkReadingAnyOk is a
\* completion decided by response.ok.
MarkReadingAnyOk(r) == Ok(r)
MarkReadingComplete(r) == r.body = "Completed"

\* GradedLtiHandler.completeItem: launchData && launchData.elements.length > 0.
\* LaunchDataAnyOk is a guard that only looks at response.ok.
LaunchDataAnyOk(r) == Ok(r)
LaunchDataOk(r) == Ok(r) /\ r.body = "elements"
\* GradedLtiHandler.getCourseGrades / the PUT: response.ok
CourseGradesOk(r) == Ok(r)
PutGradesOk(r) == Ok(r)

\* ------------------------------------------------------- batch: positions
\* the states of a handler that Promise.allSettled takes for settled.
\* FulfilledOnly is a join that waits for every handler to succeed.
FulfilledOnly == {"ok"}
Settled == {"ok", "failed"}
ModOf(p) == ((p - 1) \div 3) + 1
StageOf(p) == ((p - 1) % 3) + 1
DonePos == 3 * nMods + 1

\* items.filter((item) => item.type === ...) of the module at position p.
\* GroupWithQuizzes is a filter that lets the quizzes into the last group.
\* GroupAnyModule is a filter over the items of the whole course.
GroupAnyModule(p) ==
    {i \in 1..Len(items) : items[i].type = GroupOrder[StageOf(p)]}
GroupWithQuizzes(p) ==
    {i \in 1..Len(items) :
        /\ items[i].mod = ModOf(p)
        /\ \/ items[i].type = GroupOrder[StageOf(p)]
           \/ StageOf(p) = 3 /\ items[i].type = "quiz"}
Group(p) ==
    {i \in 1..Len(items) :
        items[i].mod = ModOf(p) /\ items[i].type = GroupOrder[StageOf(p)]}

\* the next group with items at or after p: if (videos.length > 0) ...
NextStop(p) ==
    IF \E q \in p..(DonePos - 1) : Group(q) # {}
    THEN CHOOSE q \in p..(DonePos - 1) :
            Group(q) # {} /\ \A r \in p..(q - 1) : Group(r) = {}
    ELSE DonePos

\* the first await of processVideoItem / processReadingItem / processGradedLtiItem
FirstState(type) ==
    CASE type = "video" -> "meta"
      [] type = "reading" -> "mark"
      [] OTHER -> "launch"

FirstCall(type) ==
    CASE type = "video" -> Call("metadata", 0)
      [] type = "reading" -> Call("markReading", 0)
      [] OTHER -> Call("launch", 0)

\* const totalItems: items.length, or task.moduleData.totalItems
TotalItems == IF mode = "module" THEN Len(items) ELSE tasks[runTask].totalItems

\* -------------------------------------------------------------- inputs
\* The batch processor partitions a module's items by type and dispatches each
\* group at once, so the order of the items within a module does not reach it:
\* the inputs list a module's items by type.
TypeSeq == <<"video", "reading", "programming", "quiz", "peer-review", "unknown">>
TypeRank(t) == CHOOSE r \in 1..Len(TypeSeq) : TypeSeq[r] = t

\* a classified module: the types of moduleData.items
ModuleData ==
    UNION {
        {md \in [1..n -> ItemTypes] :
            \A i \in 1..(n - 1) : TypeRank(md[i]) <= TypeRank(md[i + 1])}
        : n \in 0..MaxItems}

\* the allModules payload: the items of every module, flattened with their module
CourseItems(k) ==
    UNION {
        {c \in [1..n -> [type : ItemTypes, mod : 1..k]] :
            \A i \in 1..(n - 1) :
                \/ c[i].mod < c[i + 1].mod
                \/ /\ c[i].mod = c[i + 1].mod
                   /\ TypeRank(c[i].type) <= TypeRank(c[i + 1].type)}
        : n \in 0..MaxCourseItems}
AllModules ==
    UNION {{[nMods |-> k, items |-> c] : c \in CourseItems(k)} : k \in ModuleCounts}

\* ------------------------------------------------ the course's grade document
\* an element of onDemandCourseViewItemGrades.v1: itemId and overallOutcome
ItemGrade(id, passed, grade) == [itemId |-> id, isPassed |-> passed, grade |-> grade]

\* the item ids of a course, and the grade documents getCourseGrades may
\* return: the server keys the entries by item, so no id occurs twice
GradeItemIds == 1..(MaxGrades + 1)
GradeDocs ==
    UNION {
        {d \in [1..n -> [itemId : GradeItemIds, isPassed : BOOLEAN, grade : {0, FullGrade}]] :
            \A a, b \in 1..n : a # b => d[a].itemId # d[b].itemId}
        : n \in 0..MaxGrades}

\* itemGrades.find((ig) => ig.itemId === this.itemId): its index, 0 for undefined
FindItemGrade(doc, id) ==
    IF \E k \in 1..Len(doc) : doc[k].itemId = id
    THEN CHOOSE k \in 1..Len(doc) :
            doc[k].itemId = id /\ \A j \in 1..(k - 1) : doc[j].itemId # id
    ELSE 0

\* markItemAsPassed: itemGrades after the entry was pushed or updated.
\* MergeAlwaysPush is a merge without the find.
MergeAlwaysPush(doc, id) == Append(doc, ItemGrade(id, TRUE, FullGrade))
MergeItemGrade(doc, id) ==
    IF FindItemGrade(doc, id) = 0
    THEN Append(doc, ItemGrade(id, TRUE, FullGrade))
    ELSE [doc EXCEPT ![FindItemGrade(doc, id)].isPassed = TRUE,
                     ![FindItemGrade(doc, id)].grade = FullGrade]

\* the quotient a / b of two counts, kept as the pair of its terms
Ratio(a, b) == <<a, b>>

\* markItemAsPassed: totalItems > 0 ? passedItems / totalItems : 0
OverallGrade(itemGrades) ==
    LET totalItems == Len(itemGrades)
        passedItems == Cardinality({k \in 1..Len(itemGrades) : itemGrades[k].isPassed})
    IN  IF totalItems > 0 THEN Ratio(passedItems, totalItems) ELSE Ratio(0, 1)

\* markItemAsPassed: the payload of the PUT
GradesPayload(doc, id) ==
    LET itemGrades == MergeItemGrade(doc, id) IN
    [itemGrades |-> itemGrades,
     overallGrade |-> OverallGrade(itemGrades),
     passingState |-> IF \A k \in 1..Len(itemGrades) : itemGrades[k].isPassed
                      THEN "passed" ELSE "notPassed"]

NoPayload == [itemGrades |-> <<>>, overallGrade |-> Ratio(0, 1), passingState |-> "none"]

\* the GradedLtiHandlers of the programming group of a module, and a handler
\* before markItemAsPassed
GradeHandlers == {1, 2}
IdleHandler == [pc |-> "idle", itemId |-> 0, fetched |-> <<>>, payload |-> NoPayload]
NoGrades == [doc |-> <<>>, lti |-> [k \in GradeHandlers |-> IdleHandler]]

\* ------------------------------------------------------------ the classifier
\* A string is the sequence of the words it is written with, a resource path
\* the sequence of its segments ("/learn/lecture" is <<"learn", "lecture">>).
\* The words are taken so that none of the classifiers' keywords lies inside a
\* word or across two words: a string includes a keyword when one of its words
\* is the keyword.
TypeWords ==
    {"Lecture", "supplement", "staffGraded", "gradedLti", "ungradedAssignment",
     "exam", "Quiz", "programming", "peer", "item"}
PathWords == {"learn", "Lecture", "supplement", "exam", "quiz", "programming", "peer"}

Strings(words, n) == UNION {[1..k -> words] : k \in 0..n}
\* contentSummary.typeName ("" when absent) and resourcePath of a raw item
TypeNames == Strings(TypeWords, MaxWords)
ResourcePaths == Strings(PathWords, MaxSegs)

\* String.prototype.toLowerCase
LowerWord(w) ==
    CASE w = "Lecture" -> "lecture"
      [] w = "staffGraded" -> "staffgraded"
      [] w = "gradedLti" -> "gradedlti"
      [] w = "ungradedAssignment" -> "ungradedassignment"
      [] w = "Quiz" -> "quiz"
      [] OTHER -> w
ToLowerCase(str) == [k \in DOMAIN str |-> LowerWord(str[k])]

\* type === "word", type.includes("word"), path.includes("/word/")
Is(str, word) == str = <<word>>
Includes(str, word) == \E k \in DOMAIN str : str[k] = word
IncludesSegment(path, word) == \E k \in 1..(Len(path) - 1) : path[k] = word

\* detectItemType (the classifier of the guided course progress data)
DetectItemType(typeName, resourcePath) ==
    LET type == ToLowerCase(typeName)
        path == ToLowerCase(resourcePath) IN
    IF Is(type, "lecture") THEN "video"
    ELSE IF Is(type, "supplement") THEN "reading"
    ELSE IF Is(type, "staffgraded") THEN "quiz"
    ELSE IF Is(type, "gradedlti") THEN "programming"
    ELSE IF Is(type, "ungradedassignment") THEN "quiz"
    ELSE IF Includes(type, "exam") \/ Includes(type, "quiz") THEN "quiz"
    ELSE IF Includes(type, "programming") THEN "programming"
    ELSE IF Includes(type, "peer") THEN "peer-review"
    ELSE IF IncludesSegment(path, "lecture") THEN "video"
    ELSE IF IncludesSegment(path, "supplement") THEN "reading"
    ELSE IF IncludesSegment(path, "exam") \/ IncludesSegment(path, "quiz") THEN "quiz"
    ELSE IF IncludesSegment(path, "programming") THEN "programming"
    ELSE IF IncludesSegment(path, "peer") THEN "peer-review"
    ELSE "unknown"

\* the type detection inlined in getModuleData (the classifier of the course
\* materials data): the type-name only
DetectMaterialsType(typeName) ==
    LET type == ToLowerCase(typeName) IN
    IF Includes(type, "exam") \/ Includes(type, "quiz") THEN "quiz"
    ELSE IF Includes(type, "lecture") \/ Includes(type, "video") THEN "video"
    ELSE IF Includes(type, "supplement") \/ Includes(type, "reading") THEN "reading"
    ELSE IF Includes(type, "programming") THEN "programming"
    ELSE IF Includes(type, "peer") THEN "peer-review"
    ELSE "unknown"

\* the classifier before any call
NotClassified == [pc |-> "idle"]

\* no GradedSolver has been constructed
NoSolver == [pc |-> "idle"]

\* ------------------------------------------------------------------ Init
InitProgram ==
    /\ activeTasks = [k \in Keys |-> NoTask]
    /\ tasks = <<>>
    /\ timers = [k \in Keys |-> 0]
    /\ pc = "idle"
    /\ mode = "none"
    /\ runKey = AllModulesKey
    /\ runTask = NoTask
    /\ items = <<>>
    /\ nMods = 0
    /\ completedCount = 0
    /\ pos = 0
    /\ h = <<>>
    /\ log = <<>>
    /\ response = "none"
    /\ solvers = {}
    /\ runs = <<>>
    /\ pending = <<>>
    /\ watchers = {}
    /\ classified = NotClassified
    /\ gradedSolver = NoSolver

Init == InitProgram /\ grades = NoGrades

\* --------------------------------------------- the batch run: continuation
\* The synchronous code from the end of the group at position p (0: from the
\* resolution of getUserId) to the next await: the progress updates on the way,
\* then the dispatch of the next group with items, or updateTaskStatus(completed).
Advance(ts, c, hh, ll, p) ==
    LET q == NextStop(p + 1)
        total == TotalItems
        crossed == mode = "all" /\ nMods >= 1 /\ (p = 0 \/ ModOf(q) > ModOf(p))
        ts1 == IF mode = "module"
               THEN IF q # DonePos
                    THEN UpdateTaskProgress(ts, runKey,
                            IF StageOf(q) = 1 THEN StartProgress ELSE RoundPct(c, total),
                            Msg("Processing group", Cardinality(Group(q)), StageOf(q)))
                    ELSE ts
               ELSE IF crossed
                    THEN UpdateTaskProgress(ts, runKey, RoundPct(c, total),
                            IF q = DonePos THEN Msg("Completed Module", nMods, nMods)
                            ELSE Msg("Processing Module", ModOf(q), nMods))
                    ELSE ts
    IN  /\ pos' = q
        /\ IF q = DonePos
           THEN /\ tasks' = UpdateTaskStatus(ts1, runKey, "completed",
                                Msg("Processed", c, total))
                /\ timers' = SchedulePurge(timers, runKey, "completed")
                /\ pc' = "done"
                /\ h' = hh
                /\ log' = ll
           ELSE /\ tasks' = ts1
                /\ timers' = timers
                /\ pc' = "group"
                /\ h' = [i \in DOMAIN hh |->
                            IF i \in Group(q) THEN FirstState(items[i].type) ELSE hh[i]]
                /\ log' = [i \in DOMAIN ll |->
                            IF i \in Group(q) THEN <<FirstCall(items[i].type)>> ELSE ll[i]]

\* The mapper's counter: completedCount++ follows the await of the handler
\* inside the try, the catch only warns.  MapperCountAll is the counter of a
\* mapper that counts every settled handler, MapperCountSnapshot of a mapper
\* that adds one to the value the counter had when the run began.
MapperCountAll(c, ok) == c + 1
MapperCountSnapshot(c, ok) == IF ok THEN 0 + 1 ELSE c
MapperCount(c, ok) == IF ok THEN c + 1 ELSE c

\* The mapper's code after the handler of item i settled: on success
\* completedCount++, task.moduleData.completedItems = completedCount and (module
\* mode) updateTaskProgress; on failure a warning. When the group has settled,
\* Promise.allSettled resolves and the run continues.
Settle(i, ok, ll) ==
    LET c == MapperCount(completedCount, ok)
        ts0 == IF ok THEN [tasks EXCEPT ![runTask].completedItems = c] ELSE tasks
        ts1 == IF ok /\ mode = "module"
               THEN UpdateTaskProgress(ts0, runKey, RoundPct(c, TotalItems),
                        Msg("Completed item", c, TotalItems))
               ELSE ts0
        hh == [h EXCEPT ![i] = IF ok THEN "ok" ELSE "failed"]
    IN  /\ completedCount' = c
        /\ IF \A j \in Group(pos) \ {i} : h[j] \in Settled
           THEN Advance(ts1, c, hh, ll, pos)
           ELSE /\ tasks' = ts1
                /\ h' = hh
                /\ log' = ll
                /\ UNCHANGED <<timers, pc, pos>>
        /\ UNCHANGED <<activeTasks, mode, runKey, runTask, items, nMods, response, multiVars>>

\* a handler moved to its next await
Step(i, state, ll) ==
    /\ h' = [h EXCEPT ![i] = state]
    /\ log' = ll
    /\ UNCHANGED <<regVars, pc, mode, runKey, runTask, items, nMods,
                   completedCount, pos, response, multiVars>>

\* -------------------------------------------------------- start requests
\* processModuleItems / processAllModules up to await getUserId()
BeginRun(key, m, its, k) ==
    /\ runKey' = key
    /\ runTask' = Len(tasks) + 1
    /\ mode' = m
    /\ items' = its
    /\ nMods' = k
    /\ completedCount' = 0
    /\ pos' = 0
    /\ h' = [i \in 1..Len(its) |-> "none"]
    /\ log' = [i \in 1..Len(its) |-> <<>>]
    /\ pc' = "userId"

\* handleStartModuleSkip, getModuleData having returned the module md
StartModuleSkip(tabId, n, md) ==
    /\ pc = "idle"
    /\ tasks' = Append(tasks, ModuleTask(tabId, Len(md), Msg("Starting module skip", n, 0)))
    /\ activeTasks' = [activeTasks EXCEPT ![ModuleKey(n)] = Len(tasks) + 1]
    /\ BeginRun(ModuleKey(n), "module", [i \in 1..Len(md) |-> [type |-> md[i], mod |-> 1]], 1)
    /\ response' = "started"
    /\ UNCHANGED <<timers, multiVars>>

\* handleStartModuleSkip, getModuleData having returned null: the throw is
\* caught by the handler and answered, no task is created
StartModuleSkipNoData(n) ==
    /\ pc = "idle"
    /\ response' = "Could not fetch module data"
    /\ UNCHANGED <<regVars, runVars, multiVars>>

\* handleStartAllModulesSkip
StartAllModulesSkip(tabId, am) ==
    /\ pc = "idle"
    /\ UNCHANGED multiVars
    /\ IF activeTasks[AllModulesKey] # NoTask
       THEN /\ response' = "already running"
            /\ UNCHANGED <<regVars, runVars>>
       ELSE /\ tasks' = Append(tasks,
                   ModuleTask(tabId, Len(am.items), Msg("Starting all modules skip", 0, 0)))
            /\ activeTasks' = [activeTasks EXCEPT ![AllModulesKey] = Len(tasks) + 1]
            /\ BeginRun(AllModulesKey, "all", am.items, am.nMods)
            /\ response' = "started"
            /\ UNCHANGED timers

\* getUserId() returned: the batch is aborted, or the first group is dispatched
UserIdReturns(r) ==
    /\ pc = "userId"
    /\ IF GetUserId(r)
       THEN Advance(tasks, 0, h, log, 0)
       ELSE /\ tasks' = UpdateTaskStatus(tasks, runKey, "error",
                            Msg("Could not get user ID", 0, 0))
            /\ timers' = SchedulePurge(timers, runKey, "error")
            /\ pc' = "done"
            /\ UNCHANGED <<pos, h, log>>
    /\ UNCHANGED <<activeTasks, mode, runKey, runTask, items, nMods,
                   completedCount, response, multiVars>>

\* ---------------------------------------------------------- the handlers
Logged(i, e) == [log EXCEPT ![i] = Append(@, e)]
Logged2(i, e1, e2) == [log EXCEPT ![i] = Append(Append(@, e1), e2)]
Awaiting(i, state) == pc = "group" /\ i \in DOMAIN h /\ h[i] = state

\* processVideoItem after getVideoMetadata: throw, or new Watcher().watchItem()
VideoMetadataReturns(i, r) ==
    /\ Awaiting(i, "meta")
    /\ LET md == GetVideoMetadata(r) IN
        IF md.null
        THEN Settle(i, FALSE, Logged(i, Resp("metadata", r)))
        ELSE Step(i, WatchItemFirst(md.can_skip),
                  Logged2(i, Resp("metadata", r), Call(WatchItemFirst(md.can_skip), 0)))

\* Watcher.startItem after its fetch, then updateProgress up to its fetch
PlayReturns(i, r) ==
    /\ Awaiting(i, "play")
    /\ IF StartItemOk(r)
       THEN Step(i, "progress",
                 Logged2(i, Resp("play", r), Call("progress", TimeCommitment(i))))
       ELSE Settle(i, FALSE, Logged(i, Resp("play", r)))

\* Watcher.updateProgress after its fetch, up to the delay
ProgressReturns(i, r) ==
    /\ Awaiting(i, "progress")
    /\ IF UpdateProgressOk(r)
       THEN Step(i, "delay", Logged(i, Resp("progress", r)))
       ELSE Settle(i, FALSE, Logged(i, Resp("progress", r)))

\* the delay of updateProgress elapsed: endItem up to its fetch
DelayElapsed(i) ==
    /\ Awaiting(i, "delay")
    /\ Step(i, "end", Logged2(i, Timer(AFTER_PROGRESS_UPDATE), Call("end", 0)))

\* Watcher.endItem after its fetch
EndReturns(i, r) ==
    /\ Awaiting(i, "end")
    /\ Settle(i, EndItemOk(r), Logged(i, Resp("end", r)))

\* processReadingItem after markReadingComplete
ReadingReturns(i, r) ==
    /\ Awaiting(i, "mark")
    /\ Settle(i, MarkReadingComplete(r), Logged(i, Resp("markReading", r)))

\* GradedLtiHandler.completeItem after getLtiLaunchData
LaunchReturns(i, r) ==
    /\ Awaiting(i, "launch")
    /\ IF LaunchDataOk(r)
       THEN Step(i, "grades", Logged2(i, Resp("launch", r), Call("getGrades", 0)))
       ELSE Settle(i, FALSE, Logged(i, Resp("launch", r)))

\* GradedLtiHandler.markItemAsPassed after getCourseGrades
GradesReturns(i, r) ==
    /\ Awaiting(i, "grades")
    /\ IF CourseGradesOk(r)
       THEN Step(i, "put", Logged2(i, Resp("getGrades", r), Call("putGrades", 0)))
       ELSE Settle(i, FALSE, Logged(i, Resp("getGrades", r)))

\* GradedLtiHandler.markItemAsPassed after the PUT
PutReturns(i, r) ==
    /\ Awaiting(i, "put")
    /\ Settle(i, PutGradesOk(r), Logged(i, Resp("putGrades", r)))

ItemIds == 1..(IF MaxItems > MaxCourseItems THEN MaxItems ELSE MaxCourseItems)

Next ==
    \/ \E md \in ModuleData : StartModuleSkip(1, 1, md)
    \/ StartModuleSkipNoData(1)
    \/ \E am \in AllModules : StartAllModulesSkip(1, am)
    \/ \E r \in UserIdResponses : UserIdReturns(r)
    \/ \E i \in ItemIds, r \in MetadataResponses : VideoMetadataReturns(i, r)
    \/ \E i \in ItemIds, r \in VideoEventResponses : PlayReturns(i, r)
    \/ \E i \in ItemIds, r \in VideoEventResponses : ProgressReturns(i, r)
    \/ \E i \in ItemIds : DelayElapsed(i)
    \/ \E i \in ItemIds, r \in VideoEventResponses : EndReturns(i, r)
    \/ \E i \in ItemIds, r \in ReadingResponses : ReadingReturns(i, r)
    \/ \E i \in ItemIds, r \in LaunchResponses : LaunchReturns(i, r)
    \/ \E i \in ItemIds, r \in GradesResponses : GradesReturns(i, r)
    \/ \E i \in ItemIds, r \in PutResponses : PutReturns(i, r)

Spec == Init /\ [][Next]_vars

\* ======================================================================
\* SpecClassify: the two classifiers applied to one raw item.
\* ======================================================================
Classified(api, typeName, resourcePath, type) ==
    /\ classified = NotClassified
    /\ classified' = [pc |-> "item", api |-> api, typeName |-> typeName,
                      resourcePath |-> resourcePath, type |-> type]
    /\ UNCHANGED <<regVars, runVars, response, solvers, runs, pending, grades, watchers, gradedSolver>>

\* getModuleData / getAllModulesData of the guided course progress: one item
\* of the loop
ClassifyGuided(typeName, resourcePath) ==
    Classified("guided", typeName, resourcePath, DetectItemType(typeName, resourcePath))

\* getModuleData of the course materials: one item of the loop
ClassifyMaterials(typeName, resourcePath) ==
    Classified("materials", typeName, resourcePath, DetectMaterialsType(typeName))

NextClassify ==
    \/ classified = NotClassified /\ \E tn \in TypeNames, rp \in ResourcePaths :
            ClassifyGuided(tn, rp)
    \/ classified = NotClassified /\ \E tn \in TypeNames, rp \in ResourcePaths :
            ClassifyMaterials(tn, rp)

SpecClassify == Init /\ [][NextClassify]_vars

\* ======================================================================
\* SpecModules: getModuleData and getAllModulesData over a course.  The
\* counts of a module do not depend on the order of its items, so a week
\* lists its raw items, and a module of the course materials its element
\* references, in one order.
\* ======================================================================
\* the raw items of a course: a lecture, an exam, an item without type-name
\* under /supplement/, an item of another kind
RawItemSeq ==
    <<[typeName |-> <<"Lecture">>, resourcePath |-> <<>>],
      [typeName |-> <<"exam">>, resourcePath |-> <<>>],
      [typeName |-> <<>>, resourcePath |-> <<"supplement", "learn">>],
      [typeName |-> <<"item">>, resourcePath |-> <<>>]>>

Ascending(n, m) ==
    UNION {{sq \in [1..k -> 1..n] : \A x \in 1..(k - 1) : sq[x] <= sq[x + 1]} : k \in 0..m}

\* courseProgress.weeks: a week without modules, or the items of its modules
Weeks ==
    {[modules |-> FALSE, items |-> <<>>]}
        \cup [modules : {TRUE}, items : Ascending(Len(RawItemSeq), MaxRawItems)]
Courses == UNION {[1..k -> Weeks] : k \in 0..MaxWeeks}

\* the course materials: the element references of every module, and the
\* linked items (0: the id has no item record)
ElementIds == {1, 2}
MaterialModules == UNION {[1..k -> Ascending(2, MaxRawItems)] : k \in 0..MaxWeeks}
LinkedItems == [ElementIds -> 0..Len(RawItemSeq)]

\* the module numbers of a request
RequestNumbers == (0 - 1)..(MaxWeeks + 1)

\* arr[j] of a JavaScript array, <<>> for undefined (outside 0..length-1)
At(arr, j) == IF j >= 0 /\ j < Len(arr) THEN <<arr[j + 1]>> ELSE <<>>

Buckets == {"quiz", "video", "reading", "programming", "peer-review"}
ZeroCounts == [b \in Buckets \cup {"total"} |-> 0]

\* one turn of the loop: the bucket of the type, then counts.total++.
\* CountNamedOnly is a loop that counts in total what it counts in a bucket.
CountNamedOnly(counts, type) ==
    IF type \in Buckets
    THEN [counts EXCEPT ![type] = @ + 1, !["total"] = @ + 1]
    ELSE counts
Count(counts, type) ==
    IF type \in Buckets
    THEN [counts EXCEPT ![type] = @ + 1, !["total"] = @ + 1]
    ELSE [counts EXCEPT !["total"] = @ + 1]

\* a Module before the loop: items holds the types and ids the ids of the
\* item summaries pushed
EmptyModule == [null |-> FALSE, items |-> <<>>, counts |-> ZeroCounts, ids |-> <<>>]

\* the loop over the items of a week, after its first k items; an item of
\* RawItemSeq has its position for id (id: item.id || item.trackId)
RECURSIVE TallyWeek(_, _)
TallyWeek(raw, k) ==
    IF k = 0 THEN EmptyModule
    ELSE LET m == TallyWeek(raw, k - 1)
             type == DetectItemType(RawItemSeq[raw[k]].typeName,
                                    RawItemSeq[raw[k]].resourcePath)
         IN  [m EXCEPT !.items = Append(@, type), !.counts = Count(@, type),
                       !.ids = Append(@, raw[k])]

\* an element reference "itemId@version", and elementId.split("@")[0]
ElementId(itemId, version) == <<itemId, version>>
ItemIdOf(elementId) == elementId[1]

\* lesson.elementIds of the lessons of a module: the k-th reference to an item
\* names it in a version of its own
ElementIdsOf(refs) == [k \in DOMAIN refs |-> ElementId(refs[k], k)]

\* moduleItemIds: the Set of the references, in insertion order
RECURSIVE ItemIdSet(_, _)
ItemIdSet(refs, k) ==
    IF k = 0 THEN <<>>
    ELSE LET ids == ItemIdSet(refs, k - 1)
             itemId == ItemIdOf(refs[k])
         IN  IF \E x \in DOMAIN ids : ids[x] = itemId THEN ids ELSE Append(ids, itemId)

\* the loop over moduleItemIds, after its first k ids: if (!item) continue
RECURSIVE TallyMaterials(_, _, _)
TallyMaterials(ids, linked, k) ==
    IF k = 0 THEN EmptyModule
    ELSE LET m == TallyMaterials(ids, linked, k - 1) IN
         IF linked[ids[k]] = 0 THEN m
         ELSE LET type == DetectMaterialsType(RawItemSeq[linked[ids[k]]].typeName)
              IN  [m EXCEPT !.items = Append(@, type), !.counts = Count(@, type),
                            !.ids = Append(@, ids[k])]

\* the index getModuleData looks the module up at.  SameIndex is a lookup
\* that takes the module number for the index.
SameIndex(moduleNumber) == moduleNumber
WeekIndex(moduleNumber) == moduleNumber - 1

\* getModuleData of the guided course progress
GuidedModule(weeks, moduleNumber) ==
    LET weekIndex == WeekIndex(moduleNumber) IN
    IF weekIndex < 0 \/ weekIndex >= Len(weeks) THEN Null
    ELSE IF ~weeks[weekIndex + 1].modules THEN Null
    ELSE TallyWeek(weeks[weekIndex + 1].items, Len(weeks[weekIndex + 1].items))

\* getAllModulesData: the weeks that have modules
RECURSIVE AllGuidedModules(_, _)
AllGuidedModules(weeks, k) ==
    IF k = 0 THEN <<>>
    ELSE IF ~weeks[k].modules THEN AllGuidedModules(weeks, k - 1)
    ELSE Append(AllGuidedModules(weeks, k - 1), TallyWeek(weeks[k].items, Len(weeks[k].items)))

\* getModuleData of the course materials
MaterialsModule(modules, linked, moduleNumber) ==
    LET module == At(modules, WeekIndex(moduleNumber)) IN
    IF module = <<>> THEN Null
    ELSE LET ids == ItemIdSet(ElementIdsOf(module[1]), Len(module[1]))
         IN  TallyMaterials(ids, linked, Len(ids))

Resolved(rec) ==
    /\ classified = NotClassified
    /\ classified' = rec
    /\ UNCHANGED <<regVars, runVars, response, solvers, runs, pending, grades, watchers, gradedSolver>>

\* getModuleData (storage.ts); fetched: the progress data came back with weeks
GetGuidedModuleData(weeks, moduleNumber, fetched) ==
    Resolved([pc |-> "module", api |-> "guided", course |-> weeks, linked |-> <<>>,
              fetched |-> fetched, moduleNumber |-> moduleNumber,
              result |-> <<IF fetched THEN GuidedModule(weeks, moduleNumber) ELSE Null>>])

\* getAllModulesData (storage.ts)
GetAllModulesData(weeks, fetched) ==
    Resolved([pc |-> "all", api |-> "guided", course |-> weeks, linked |-> <<>>,
              fetched |-> fetched, moduleNumber |-> 0,
              result |-> IF fetched THEN AllGuidedModules(weeks, Len(weeks)) ELSE <<>>])

\* getModuleData (coursera-api.ts); fetched: getCourseData returned linked data
GetMaterialsModuleData(modules, linked, moduleNumber, fetched) ==
    Resolved([pc |-> "module", api |-> "materials", course |-> modules, linked |-> linked,
              fetched |-> fetched, moduleNumber |-> moduleNumber,
              result |-> <<IF fetched THEN MaterialsModule(modules, linked, moduleNumber)
                           ELSE Null>>])

Unclassified == classified = NotClassified

NextModules ==
    \/ Unclassified /\ \E c \in Courses, n \in RequestNumbers, f \in BOOLEAN :
            GetGuidedModuleData(c, n, f)
    \/ Unclassified /\ \E c \in Courses, f \in BOOLEAN : GetAllModulesData(c, f)
    \/ Unclassified /\ \E c \in MaterialModules, l \in LinkedItems,
                          n \in RequestNumbers, f \in BOOLEAN :
            GetMaterialsModuleData(c, l, n, f)

SpecModules == Init /\ [][NextModules]_vars

\* ======================================================================
\* SpecHang: the batch run when a fetch may stay unanswered.  The handlers
\* call fetch(url, {...}) without a signal and without a timer racing it, so
\* the await of a call that gets no response never resumes.  The event loop
\* runs every continuation whose response arrived: weak fairness of the
\* steps of a run that has started.
\* ======================================================================
NetworkStates == {"meta", "play", "progress", "end", "mark", "launch", "grades", "put"}

\* the fetch handler i awaits gets no response
CallLost(i) ==
    /\ pc = "group"
    /\ i \in DOMAIN h
    /\ h[i] \in NetworkStates
    /\ Step(i, "lost", log)

NextHang ==
    \/ Next
    \/ \E i \in ItemIds : CallLost(i)

SpecHang == Init /\ [][NextHang]_vars /\ WF_vars(Next /\ pc # "idle")

\* ======================================================================
\* SpecLive: the batch run when every call is answered and the delay of every
\* watcher elapses.  The event loop then runs the continuation of each await:
\* weak fairness of the steps of a run that has started.
\* ======================================================================
\* The modules of its batches hold at most as many items as its courses.
LiveModuleData == {md \in ModuleData : Len(md) <= MaxCourseItems}

\* a step of a run: the continuation of one of its awaits
RunStep ==
    \/ \E r \in UserIdResponses : UserIdReturns(r)
    \/ \E i \in ItemIds, r \in MetadataResponses : VideoMetadataReturns(i, r)
    \/ \E i \in ItemIds, r \in VideoEventResponses : PlayReturns(i, r)
    \/ \E i \in ItemIds, r \in VideoEventResponses : ProgressReturns(i, r)
    \/ \E i \in ItemIds : DelayElapsed(i)
    \/ \E i \in ItemIds, r \in VideoEventResponses : EndReturns(i, r)
    \/ \E i \in ItemIds, r \in ReadingResponses : ReadingReturns(i, r)
    \/ \E i \in ItemIds, r \in LaunchResponses : LaunchReturns(i, r)
    \/ \E i \in ItemIds, r \in GradesResponses : GradesReturns(i, r)
    \/ \E i \in ItemIds, r \in PutResponses : PutReturns(i, r)

NextLive ==
    \/ \E md \in LiveModuleData : StartModuleSkip(1, 1, md)
    \/ StartModuleSkipNoData(1)
    \/ \E am \in AllModules : StartAllModulesSkip(1, am)
    \/ RunStep

SpecLive == Init /\ [][NextLive]_vars /\ WF_vars(RunStep)

\* ======================================================================
\* SpecReg: the registry under several requests.  The modules of its batches
\* hold readings only (one group, one call per handler), so that a handler is
\* one step; allModules is [] or one module.  A task object that neither the
\* registry nor a run in flight refers to is garbage and is kept as Dead; the
\* record of a run that has returned is kept as DoneRun.
\* ======================================================================
SolverTask(tabId) ==
    [type |-> "solver", tabId |-> tabId, status |-> "running", progress |-> 0,
     message |-> Msg("Starting solver", 0, 0), totalItems |-> 0, completedItems |-> 0]

Dead ==
    [type |-> "dead", tabId |-> 0, status |-> "dead", progress |-> 0,
     message |-> Msg("", 0, 0), totalItems |-> 0, completedItems |-> 0]

Run(kind, key, k, total) ==
    [kind |-> kind, key |-> key, task |-> Len(tasks) + 1, pc |-> "userId",
     nMods |-> k, total |-> total, left |-> total, c |-> 0]

DoneRun ==
    [kind |-> "done", key |-> AllModulesKey, task |-> NoTask, pc |-> "done",
     nMods |-> 0, total |-> 0, left |-> 0, c |-> 0]

\* the number of readings of a module of SpecReg
RegModuleSizes == {0, 1}

Started == Len(runs) + Len(pending)
InFlight(r) == runs[r].pc # "done"
RemoveAt(sq, j) == [x \in 1..(Len(sq) - 1) |-> IF x < j THEN sq[x] ELSE sq[x + 1]]

Collect(ts, at, rs) ==
    [t \in DOMAIN ts |->
        IF \/ \E k \in Keys : at[k] = t
           \/ \E r \in DOMAIN rs : rs[r].pc # "done" /\ rs[r].task = t
        THEN ts[t] ELSE Dead]

\* the registry and the runs after a step
Becomes(at, ts, rs) ==
    /\ activeTasks' = at
    /\ runs' = rs
    /\ tasks' = Collect(ts, at, rs)

\* handleStartModuleSkip (getModuleData returned a module of `total` readings):
\* the task is stored under the key whatever the registry holds
RegStartModuleSkip(tabId, n, total) ==
    /\ Started < MaxRuns
    /\ Becomes([activeTasks EXCEPT ![ModuleKey(n)] = Len(tasks) + 1],
               Append(tasks, ModuleTask(tabId, total, Msg("Starting module skip", n, 0))),
               Append(runs, Run("module", ModuleKey(n), 1, total)))
    /\ response' = "started"
    /\ UNCHANGED <<timers, runVars, grades, classified, gradedSolver, watchers, solvers, pending>>

\* handleStartAllModulesSkip, allModules being k modules holding `total` readings
RegStartAllModulesSkip(tabId, k, total) ==
    /\ Started < MaxRuns
    /\ k = 0 => total = 0
    /\ IF activeTasks[AllModulesKey] # NoTask
       THEN /\ response' = "already running"
            /\ UNCHANGED <<regVars, runs>>
       ELSE /\ Becomes([activeTasks EXCEPT ![AllModulesKey] = Len(tasks) + 1],
                       Append(tasks, ModuleTask(tabId, total,
                                        Msg("Starting all modules skip", 0, 0))),
                       Append(runs, Run("all", AllModulesKey, k, total)))
            /\ response' = "started"
            /\ UNCHANGED timers
    /\ UNCHANGED <<runVars, grades, classified, gradedSolver, watchers, solvers, pending>>

\* handleStartSolver up to await getSettings()
RegStartSolver(tabId, n) ==
    /\ Started < MaxRuns
    /\ IF activeTasks[SolverKey(n)] # NoTask
       THEN /\ response' = "already running"
            /\ UNCHANGED pending
       ELSE /\ pending' = Append(pending, [stage |-> "settings", tabId |-> tabId, n |-> n])
            /\ UNCHANGED response
    /\ UNCHANGED <<regVars, runVars, grades, classified, gradedSolver, watchers, solvers, runs>>

\* handleStartSolver from getSettings() to await getSessionToken()
SettingsRead(j, apiKey) ==
    /\ j \in DOMAIN pending
    /\ pending[j].stage = "settings"
    /\ IF apiKey
       THEN /\ pending' = [pending EXCEPT ![j].stage = "token"]
            /\ UNCHANGED response
       ELSE /\ pending' = RemoveAt(pending, j)
            /\ response' = "API key not configured"
    /\ UNCHANGED <<regVars, runVars, grades, classified, gradedSolver, watchers, solvers, runs>>

\* handleStartSolver from getSessionToken() on: the solver and the task are
\* stored, runSolver runs up to await solver.solve()
TokenRead(j, sessionToken) ==
    /\ j \in DOMAIN pending
    /\ pending[j].stage = "token"
    /\ pending' = RemoveAt(pending, j)
    /\ IF sessionToken
       THEN /\ solvers' = solvers \cup {SolverKey(pending[j].n)}
            /\ Becomes([activeTasks EXCEPT ![SolverKey(pending[j].n)] = Len(tasks) + 1],
                       Append(tasks, SolverTask(pending[j].tabId)),
                       Append(runs, [Run("solver", SolverKey(pending[j].n), 0, 0)
                                        EXCEPT !.pc = "solve"]))
            /\ response' = "started"
       ELSE /\ response' = "Not authenticated"
            /\ UNCHANGED <<activeTasks, tasks, solvers, runs>>
    /\ UNCHANGED <<timers, runVars, grades, classified, gradedSolver, watchers>>

\* a run ends: updateTaskStatus and its purge timer
Finish(r, ts, status, message) ==
    /\ Becomes(activeTasks, UpdateTaskStatus(ts, runs[r].key, status, message),
               [runs EXCEPT ![r] = DoneRun])
    /\ timers' = SchedulePurge(timers, runs[r].key, status)

\* a run goes on
Continue(r, ts, rec) ==
    /\ Becomes(activeTasks, ts, [runs EXCEPT ![r] = rec])
    /\ UNCHANGED timers

\* processModuleItems / processAllModules after getUserId()
RunUserIdReturns(r, resp) ==
    /\ r \in DOMAIN runs
    /\ runs[r].pc = "userId"
    /\ LET run == runs[r]
           p0 == RoundPct(0, run.total) IN
       IF ~GetUserId(resp)
       THEN Finish(r, tasks, "error", Msg("Could not get user ID", 0, 0))
       ELSE IF run.total > 0
            THEN Continue(r,
                    UpdateTaskProgress(tasks, run.key, p0,
                        IF run.kind = "module" THEN Msg("Processing group", run.total, 2)
                        ELSE Msg("Processing Module", 1, run.nMods)),
                    [run EXCEPT !.pc = "items"])
            ELSE Finish(r,
                    IF run.kind = "all" /\ run.nMods > 0
                    THEN UpdateTaskProgress(tasks, run.key, p0,
                            Msg("Completed Module", run.nMods, run.nMods))
                    ELSE tasks,
                    "completed", Msg("Processed", 0, run.total))
    /\ UNCHANGED <<runVars, grades, classified, gradedSolver, watchers, response, solvers, pending>>

\* the mapper of the reading group after markReadingComplete returned
RunItemSettles(r, resp) ==
    /\ r \in DOMAIN runs
    /\ runs[r].pc = "items"
    /\ LET run == runs[r]
           ok == MarkReadingComplete(resp)
           c == MapperCount(run.c, ok)
           rec == [run EXCEPT !.c = c, !.left = @ - 1]
           ts0 == IF ok THEN [tasks EXCEPT ![run.task].completedItems = c] ELSE tasks
           ts1 == IF ok /\ run.kind = "module"
                  THEN UpdateTaskProgress(ts0, run.key, RoundPct(c, run.total),
                            Msg("Completed item", c, run.total))
                  ELSE ts0
           ts2 == IF run.kind = "all"
                  THEN UpdateTaskProgress(ts1, run.key, RoundPct(c, run.total),
                            Msg("Completed Module", run.nMods, run.nMods))
                  ELSE ts1 IN
       IF rec.left = 0
       THEN Finish(r, ts2, "completed", Msg("Processed", c, run.total))
       ELSE Continue(r, ts1, rec)
    /\ UNCHANGED <<runVars, grades, classified, gradedSolver, watchers, response, solvers, pending>>

\* a run of runSolver sets a terminal status and goes on to its next await
Terminate(r, status, message, next) ==
    /\ Becomes(activeTasks, UpdateTaskStatus(tasks, runs[r].key, status, message),
               [runs EXCEPT ![r].pc = next])
    /\ timers' = SchedulePurge(timers, runs[r].key, status)

\* runSolver after solver.solve() returned (completed, then await
\* saveCourseProgress) or threw (catch: error, then await showErrorNotification)
SolveReturns(r, ok) ==
    /\ r \in DOMAIN runs
    /\ runs[r].pc = "solve"
    /\ IF ok
       THEN Terminate(r, "completed", Msg("Assessment completed successfully", 0, 0), "save")
       ELSE Terminate(r, "error", Msg("Solver failed", 0, 0), "notify")
    /\ UNCHANGED <<runVars, grades, classified, gradedSolver, watchers, response, solvers, pending>>

\* runSolver after saveCourseProgress({status: "completed"}): stored, or
\* chrome.storage.local.set rejected and the catch sets error
SaveReturns(r, stored) ==
    /\ r \in DOMAIN runs
    /\ runs[r].pc = "save"
    /\ IF stored
       THEN /\ Becomes(activeTasks, tasks, [runs EXCEPT ![r] = DoneRun])
            /\ UNCHANGED timers
       ELSE Terminate(r, "error", Msg("Storage failed", 0, 0), "notify")
    /\ UNCHANGED <<runVars, grades, classified, gradedSolver, watchers, response, solvers, pending>>

\* runSolver's catch after showErrorNotification: const task =
\* activeTasks.get(taskKey); if (task) await saveCourseProgress({status: "failed"})
ErrorNotified(r) ==
    /\ r \in DOMAIN runs
    /\ runs[r].pc = "notify"
    /\ Becomes(activeTasks, tasks,
               [runs EXCEPT ![r] = IF activeTasks[runs[r].key] = NoTask THEN DoneRun
                                   ELSE [@ EXCEPT !.pc = "saveFailed"]])
    /\ UNCHANGED <<timers, runVars, grades, classified, gradedSolver, watchers, response, solvers, pending>>

\* runSolver after saveCourseProgress({status: "failed"}): stored, or the
\* rejection leaves runSolver and the .catch of handleStartSolver sets error
SaveFailedReturns(r, stored) ==
    /\ r \in DOMAIN runs
    /\ runs[r].pc = "saveFailed"
    /\ IF stored
       THEN /\ Becomes(activeTasks, tasks, [runs EXCEPT ![r] = DoneRun])
            /\ UNCHANGED timers
       ELSE Finish(r, tasks, "error", Msg("Storage failed", 0, 0))
    /\ UNCHANGED <<runVars, grades, classified, gradedSolver, watchers, response, solvers, pending>>

\* handleStopSolver
StopSolver(n) ==
    /\ IF activeTasks[SolverKey(n)] = NoTask
       THEN UNCHANGED <<tasks, solvers>>
       ELSE /\ solvers' = solvers \ {SolverKey(n)}
            /\ tasks' = UpdateTaskStatus(tasks, SolverKey(n), "paused",
                            Msg("Solver stopped by user", 0, 0))
    /\ UNCHANGED <<activeTasks, timers, runVars, grades, classified, gradedSolver, watchers, runs, pending, response>>

\* the ActiveTask literal of handleStartWatcher after runWatcher's first
\* statement, updateTaskProgress(taskKey, 50, "Watching video...")
WatcherTask(tabId) ==
    [type |-> "watcher", tabId |-> tabId, status |-> "running", progress |-> WatchProgress,
     message |-> Msg("Watching video", 0, 0), totalItems |-> 0, completedItems |-> 0]

\* handleStartWatcher: the watcher and the task are stored whatever the registry
\* holds, runWatcher runs up to await watcher.watchItem()
RegStartWatcher(tabId, n) ==
    /\ Started < MaxRuns
    /\ watchers' = watchers \cup {WatcherKey(n)}
    /\ Becomes([activeTasks EXCEPT ![WatcherKey(n)] = Len(tasks) + 1],
               Append(tasks, WatcherTask(tabId)),
               Append(runs, [Run("watcher", WatcherKey(n), 0, 0) EXCEPT !.pc = "watch"]))
    /\ response' = "started"
    /\ UNCHANGED <<timers, runVars, grades, classified, gradedSolver, solvers, pending>>

\* runWatcher after watcher.watchItem() returned or threw, up to the await of
\* the notification
WatchReturns(r, ok) ==
    /\ r \in DOMAIN runs
    /\ runs[r].pc = "watch"
    /\ IF ok
       THEN Terminate(r, "completed", Msg("Video completed successfully", 0, 0), "finally")
       ELSE Terminate(r, "error", Msg("Watcher failed", 0, 0), "finally")
    /\ UNCHANGED <<runVars, grades, classified, gradedSolver, watchers, response, solvers, pending>>

\* runWatcher: finally { this.watchers.delete(taskKey) }
WatcherFinally(r) ==
    /\ r \in DOMAIN runs
    /\ runs[r].pc = "finally"
    /\ watchers' = watchers \ {runs[r].key}
    /\ Becomes(activeTasks, tasks, [runs EXCEPT ![r] = DoneRun])
    /\ UNCHANGED <<timers, runVars, grades, classified, gradedSolver, response, solvers, pending>>

\* handleStopWatcher: this.watchers.clear()
StopWatcher ==
    /\ watchers' = {}
    /\ response' = "stopped"
    /\ UNCHANGED <<regVars, runVars, grades, classified, gradedSolver, solvers, runs, pending>>

\* chrome.tabs.onRemoved
TabClosed(tabId) ==
    /\ Becomes(CleanupTasksForTab(tabId), tasks, runs)
    /\ solvers' = {k \in solvers :
                    activeTasks[k] = NoTask \/ tasks[activeTasks[k]].tabId # tabId}
    /\ watchers' = {k \in watchers :
                    activeTasks[k] = NoTask \/ tasks[activeTasks[k]].tabId # tabId}
    /\ UNCHANGED <<timers, runVars, grades, classified, gradedSolver, response, pending>>

\* the setTimeout callback of updateTaskStatus
PurgeTimerFires(key) ==
    /\ timers[key] > 0
    /\ timers' = [timers EXCEPT ![key] = @ - 1]
    /\ Becomes([activeTasks EXCEPT ![key] = NoTask], tasks, runs)
    /\ solvers' = solvers \ {key}
    /\ watchers' = watchers \ {key}
    /\ UNCHANGED <<runVars, grades, classified, gradedSolver, response, pending>>

NextReg ==
    \/ \E t \in Tabs, n \in ModuleNumbers, total \in RegModuleSizes :
            RegStartModuleSkip(t, n, total)
    \/ \E t \in Tabs, k \in 0..1, total \in RegModuleSizes :
            RegStartAllModulesSkip(t, k, total)
    \/ \E r \in 1..MaxRuns, resp \in UserIdResponses : RunUserIdReturns(r, resp)
    \/ \E r \in 1..MaxRuns, resp \in ReadingResponses : RunItemSettles(r, resp)
    \/ \E t \in Tabs : TabClosed(t)
    \/ \E k \in Keys : PurgeTimerFires(k)

SpecReg == Init /\ [][NextReg]_vars

\* SpecSolver: the registry under solver requests.  Solver tasks and batch
\* tasks have different keys and meet only in the tab teardown, which treats
\* every key by itself.
NextSolver ==
    \/ \E t \in Tabs : RegStartSolver(t, 1)
    \/ \E j \in 1..MaxRuns, apiKey \in BOOLEAN : SettingsRead(j, apiKey)
    \/ \E j \in 1..MaxRuns, token \in BOOLEAN : TokenRead(j, token)
    \/ \E r \in 1..MaxRuns, ok \in BOOLEAN : SolveReturns(r, ok)
    \/ \E r \in 1..MaxRuns, stored \in BOOLEAN : SaveReturns(r, stored)
    \/ \E r \in 1..MaxRuns : ErrorNotified(r)
    \/ \E r \in 1..MaxRuns, stored \in BOOLEAN : SaveFailedReturns(r, stored)
    \/ StopSolver(1)
    \/ \E t \in Tabs : TabClosed(t)
    \/ \E k \in Keys : PurgeTimerFires(k)

SpecSolver == Init /\ [][NextSolver]_vars

\* SpecWatcher: the registry under watcher start and stop requests.
NextWatcher ==
    \/ \E t \in Tabs : RegStartWatcher(t, 1)
    \/ \E r \in 1..MaxRuns, ok \in BOOLEAN : WatchReturns(r, ok)
    \/ \E r \in 1..MaxRuns : WatcherFinally(r)
    \/ StopWatcher
    \/ \E t \in Tabs : TabClosed(t)
    \/ \E k \in Keys : PurgeTimerFires(k)

SpecWatcher == Init /\ [][NextWatcher]_vars

\* SpecTabs: cleanupTasksForTab applied to the registries the service can hold:
\* under every key no task or a task of some tab in some status, a running task
\* with its run in flight, a solver or watcher task with or without its entry
\* in solvers or watchers.
KeySeq == <<ModuleKey(1), AllModulesKey, SolverKey(1), WatcherKey(1)>>
KeyKind == <<"module", "all", "solver", "watcher">>
KeyPc == <<"userId", "userId", "solve", "watch">>

\* what a key holds: nothing, or a task
Slots(x) ==
    {[present |-> FALSE, tabId |-> 1, status |-> "running"]}
        \cup [present : {TRUE}, tabId : Tabs,
              status : IF KeyKind[x] = "solver"
                       THEN {"running", "completed", "error", "paused"}
                       ELSE {"running", "completed", "error"}]

SlotTask(x, slot) ==
    IF ~slot.present THEN Dead
    ELSE [(CASE KeyKind[x] = "solver" -> SolverTask(slot.tabId)
             [] KeyKind[x] = "watcher" -> WatcherTask(slot.tabId)
             [] OTHER -> ModuleTask(slot.tabId, 1, Msg("Starting module skip", 1, 0)))
            EXCEPT !.status = slot.status]

SlotRun(x) ==
    [kind |-> KeyKind[x], key |-> KeySeq[x], task |-> x, pc |-> KeyPc[x],
     nMods |-> 1, total |-> 1, left |-> 1, c |-> 0]

RECURSIVE SlotRuns(_, _)
SlotRuns(f, x) ==
    IF x = 0 THEN <<>>
    ELSE IF f[x].present /\ f[x].status = "running"
         THEN Append(SlotRuns(f, x - 1), SlotRun(x))
         ELSE SlotRuns(f, x - 1)

InitTabs ==
    /\ pc = "idle" /\ mode = "none" /\ runKey = AllModulesKey /\ runTask = NoTask
    /\ items = <<>> /\ nMods = 0 /\ completedCount = 0 /\ pos = 0
    /\ h = <<>> /\ log = <<>> /\ response = "none" /\ pending = <<>>
    /\ grades = NoGrades
    /\ classified = NotClassified
    /\ gradedSolver = NoSolver
    /\ timers = [k \in Keys |-> 0]
    /\ \E f \in [1..Len(KeySeq) -> UNION {Slots(x) : x \in 1..Len(KeySeq)}] :
        /\ \A x \in 1..Len(KeySeq) : f[x] \in Slots(x)
        /\ tasks = [x \in 1..Len(KeySeq) |-> SlotTask(x, f[x])]
        /\ activeTasks = [k \in Keys |->
                LET x == CHOOSE y \in 1..Len(KeySeq) : KeySeq[y] = k
                IN  IF f[x].present THEN x ELSE NoTask]
        /\ runs = SlotRuns(f, Len(KeySeq))
        /\ solvers \in SUBSET {SolverKey(1)}
        /\ watchers \in SUBSET {WatcherKey(1)}
        /\ \A x \in 1..Len(KeySeq) :
                ~f[x].present => KeySeq[x] \notin solvers \cup watchers

NextTabs == \E t \in Tabs : TabClosed(t)

SpecTabs == InitTabs /\ [][NextTabs]_vars

\* ======================================================================
\* SpecGrades: GradedLtiHandler.markItemAsPassed against the course's grade
\* document, for the handlers of one programming group.
\* ======================================================================
InitGrades ==
    /\ InitProgram
    /\ \E d \in GradeDocs : grades = [NoGrades EXCEPT !.doc = d]

LtiStep(k, rec) ==
    /\ grades' = [grades EXCEPT !.lti[k] = rec]
    /\ UNCHANGED <<regVars, runVars, response, solvers, runs, pending, watchers, classified, gradedSolver>>

\* completeItem calls markItemAsPassed, which runs up to await getCourseGrades()
MarkItemAsPassed(k, id) ==
    /\ grades.lti[k].pc = "idle"
    /\ LtiStep(k, [grades.lti[k] EXCEPT !.pc = "grades", !.itemId = id])

\* getCourseGrades returned: null throws, a document is merged and PUT
CourseGradesReturn(k, r) ==
    /\ grades.lti[k].pc = "grades"
    /\ IF CourseGradesOk(r)
       THEN LtiStep(k, [grades.lti[k] EXCEPT
                            !.pc = "put",
                            !.fetched = grades.doc,
                            !.payload = GradesPayload(grades.doc, grades.lti[k].itemId)])
       ELSE LtiStep(k, [grades.lti[k] EXCEPT !.pc = "failed"])

\* the PUT returned: the server has stored the payload, or refused it
PutGradesReturn(k, r) ==
    /\ grades.lti[k].pc = "put"
    /\ IF PutGradesOk(r)
       THEN /\ grades' = [grades EXCEPT !.doc = grades.lti[k].payload.itemGrades,
                                        !.lti[k].pc = "done"]
            /\ UNCHANGED <<regVars, runVars, response, solvers, runs, pending, watchers, classified, gradedSolver>>
       ELSE LtiStep(k, [grades.lti[k] EXCEPT !.pc = "failed"])

NextGrades ==
    \/ \E k \in GradeHandlers, id \in GradeItemIds : MarkItemAsPassed(k, id)
    \/ \E k \in GradeHandlers, r \in GradesResponses : CourseGradesReturn(k, r)
    \/ \E k \in GradeHandlers, r \in PutResponses : PutGradesReturn(k, r)

SpecGrades == InitGrades /\ [][NextGrades]_vars

\* ======================================================================
\* SpecSolve: GradedSolver.solve, one call.  runSolver calls solve(null) for
\* the task of an admitted START_SOLVER request; solve called with a
\* connector (PerplexityConnector) is the use the class is exported for.
\* ======================================================================
\* SubmissionState.queryState as getState returns it
QueryStates ==
    [allowedAction : {"RESUME_DRAFT", "START_NEW_ATTEMPT", "OTHER"},
     outcome : {"null", "passed", "notPassed"},
     attemptsRemaining : {0, 1}]

\* solve after its first getState: the branch taken.  AfterStateAnyAttempts
\* is a solve without the check of attemptsRemaining.
AfterStateAnyAttempts(state) ==
    IF state.allowedAction = "RESUME_DRAFT" THEN "inProgress"
    ELSE IF state.allowedAction = "START_NEW_ATTEMPT"
         THEN IF state.outcome # "null" /\ state.outcome = "passed" THEN "passed"
              ELSE "initiateAttempt"
         ELSE "unexpected"
AfterState(state) ==
    IF state.allowedAction = "RESUME_DRAFT" THEN "inProgress"
    ELSE IF state.allowedAction = "START_NEW_ATTEMPT"
         THEN IF state.outcome # "null" /\ state.outcome = "passed" THEN "passed"
              ELSE IF state.attemptsRemaining = 0 THEN "noAttempts"
              ELSE "initiateAttempt"
         ELSE "unexpected"

\* a GradedSolver whose solve() has run up to its first await, getState()
NewSolver(via, connector) ==
    [pc |-> "getState", via |-> via, connector |-> connector,
     calls |-> <<"getState">>, results |-> <<>>, state |-> <<>>,
     draftId |-> FALSE, attemptId |-> FALSE,
     exit |-> "none", why |-> "", logged |-> FALSE]

\* the call solve awaited has returned
Returned(ok) == [gradedSolver EXCEPT !.results = Append(@, ok)]

\* solve goes on to its next await
Await(gs, call) ==
    /\ gradedSolver' = [gs EXCEPT !.pc = call, !.calls = Append(@, call)]
    /\ UNCHANGED <<regVars, runVars, response, solvers, runs, pending, grades,
                   watchers, classified>>

\* solve has returned (with or without a console.error) or thrown; under
\* runSolver the statement after the await, or the catch, sets the status
Exit(gs, exit, why, logged) ==
    /\ gradedSolver' = [gs EXCEPT !.pc = "done", !.exit = exit, !.why = why,
                                  !.logged = logged]
    /\ IF gs.via = "runSolver"
       THEN LET status == IF exit = "returned" THEN "completed" ELSE "error"
                message == IF exit = "returned"
                           THEN Msg("Assessment completed successfully", 0, 0)
                           ELSE Msg(why, 0, 0)
            IN  /\ tasks' = UpdateTaskStatus(tasks, SolverKey(1), status, message)
                /\ timers' = SchedulePurge(timers, SolverKey(1), status)
       ELSE UNCHANGED <<tasks, timers>>
    /\ UNCHANGED <<activeTasks, runVars, response, solvers, runs, pending, grades,
                   watchers, classified>>

\* handleStartSolver admitted, then runSolver up to the await in solve(null)
StartSolve(tabId) ==
    /\ gradedSolver = NoSolver
    /\ tasks' = Append(tasks, SolverTask(tabId))
    /\ activeTasks' = [activeTasks EXCEPT ![SolverKey(1)] = Len(tasks) + 1]
    /\ solvers' = solvers \cup {SolverKey(1)}
    /\ gradedSolver' = NewSolver("runSolver", FALSE)
    /\ response' = "started"
    /\ UNCHANGED <<timers, runVars, runs, pending, grades, watchers, classified>>

\* solve(llmConnector) called with a connector
SolveWithConnector ==
    /\ gradedSolver = NoSolver
    /\ gradedSolver' = NewSolver("solve", TRUE)
    /\ UNCHANGED <<regVars, runVars, response, solvers, runs, pending, grades,
                   watchers, classified>>

\* solve after getState(): the query threw, or the branch of the state
StateReturns(ok, state) ==
    /\ gradedSolver.pc = "getState"
    /\ LET gs == [Returned(ok) EXCEPT !.state = IF ok THEN <<state>> ELSE <<>>]
           branch == AfterState(state) IN
       IF ~ok THEN Exit(gs, "thrown", "getState", TRUE)
       ELSE IF branch = "initiateAttempt" THEN Await(gs, "initiateAttempt")
       ELSE Exit(gs, "returned", branch, branch # "passed")

\* solve after initiateAttempt(): false (also when the query threw), or
\* retrieveQuestions up to its getState()
InitiateReturns(ok) ==
    /\ gradedSolver.pc = "initiateAttempt"
    /\ IF ok THEN Await(Returned(ok), "retrieveQuestions")
       ELSE Exit(Returned(ok), "returned", "initiateAttempt", TRUE)

\* retrieveQuestions after its getState(): the query threw or the state has no
\* attempt in progress (both throw), or the ids of the draft are kept and
\* llmConnector.getResponse is called: a TypeError when llmConnector is null
QuestionsReturn(ok, draftId, attemptId) ==
    /\ gradedSolver.pc = "retrieveQuestions"
    /\ LET gs == [Returned(ok) EXCEPT !.draftId = ok /\ draftId,
                                      !.attemptId = ok /\ attemptId] IN
       IF ~ok THEN Exit(gs, "thrown", "retrieveQuestions", TRUE)
       ELSE IF ~gs.connector THEN Exit(gs, "thrown", "getResponse", FALSE)
       ELSE Await(gs, "getResponse")

\* solve after llmConnector.getResponse(): it threw, or saveResponses runs:
\* false without a call when there is no draft id or the answers cannot be
\* iterated, else up to its query
AnswersReturn(ok, iterable) ==
    /\ gradedSolver.pc = "getResponse"
    /\ IF ~ok THEN Exit(Returned(ok), "thrown", "getResponse", FALSE)
       ELSE IF ~gradedSolver.draftId \/ ~iterable
            THEN Exit(Returned(ok), "returned", "saveResponses", TRUE)
            ELSE Await(Returned(ok), "saveResponses")

\* solve after saveResponses(): false, or submitDraft runs: false without a
\* call when there is no attempt id, else up to its query
SaveResponsesReturns(ok) ==
    /\ gradedSolver.pc = "saveResponses"
    /\ IF ~ok THEN Exit(Returned(ok), "returned", "saveResponses", TRUE)
       ELSE IF ~gradedSolver.attemptId
            THEN Exit(Returned(ok), "returned", "submitDraft", TRUE)
            ELSE Await(Returned(ok), "submitDraft")

\* solve after submitDraft(): false, or the delay before getGrade
SubmitDraftReturns(ok) ==
    /\ gradedSolver.pc = "submitDraft"
    /\ IF ok THEN Await(Returned(ok), "delay")
       ELSE Exit(Returned(ok), "returned", "submitDraft", TRUE)

\* await this.delay(3000) elapsed: getGrade up to its query
GradingDelayElapsed ==
    /\ gradedSolver.pc = "delay"
    /\ Await(Returned(TRUE), "getGrade")

\* solve after getGrade(): passed, or an error is logged; solve returns
GradeReturns(passed) ==
    /\ gradedSolver.pc = "getGrade"
    /\ Exit(Returned(passed), "returned", "graded", ~passed)

NextSolve ==
    \/ \E t \in Tabs : StartSolve(t)
    \/ SolveWithConnector
    \/ \E ok \in BOOLEAN, st \in QueryStates : StateReturns(ok, st)
    \/ \E ok \in BOOLEAN : InitiateReturns(ok)
    \/ \E ok, d, a \in BOOLEAN : QuestionsReturn(ok, d, a)
    \/ \E ok, it \in BOOLEAN : AnswersReturn(ok, it)
    \/ \E ok \in BOOLEAN : SaveResponsesReturns(ok)
    \/ \E ok \in BOOLEAN : SubmitDraftReturns(ok)
    \/ GradingDelayElapsed
    \/ \E passed \in BOOLEAN : GradeReturns(passed)

SpecSolve == Init /\ [][NextSolve]_vars

\* ======================================================================
\* Properties of the batch run (Spec)
\* ======================================================================
Last(sq) == sq[Len(sq)]
Dispatchable == {"video", "reading", "programming"}

\* the calls item i's handler issued, in order
CallsOf(i) ==
    LET sq == SelectSeq(log[i], LAMBDA e : e.ev = "call")
    IN  [k \in 1..Len(sq) |-> sq[k].what]

\* the metadata of video i came back with can_skip = b
MetadataSays(i, b) ==
    /\ Len(log[i]) >= 2
    /\ log[i][2] = Resp("metadata", R(200, IF b THEN "skip" ELSE "noskip"))

\* the handler of item i returned without throwing, as its log tells
HandlerSucceeded(i) ==
    /\ log[i] # <<>>
    /\ Last(log[i]).ev = "resp"
    /\ CASE items[i].type = "video" ->
                Last(log[i]).what = "end" /\ Last(log[i]).val = 200
         [] items[i].type = "reading" ->
                Last(log[i]).what = "markReading" /\ Last(log[i]).body = "Completed"
         [] OTHER ->
                Last(log[i]).what = "putGrades" /\ Last(log[i]).val \in 200..299

\* the handler of item i threw
HandlerFailed(i) ==
    /\ log[i] # <<>>
    /\ Last(log[i]).ev = "resp"
    /\ ~HandlerSucceeded(i)

\* the calls of a handler that ran to its end
FullCalls(i) ==
    CASE items[i].type = "video" /\ MetadataSays(i, TRUE) -> <<"metadata", "end">>
      [] items[i].type = "video" /\ ~MetadataSays(i, TRUE) ->
            <<"metadata", "play", "progress", "end">>
      [] items[i].type = "reading" -> <<"markReading">>
      [] OTHER -> <<"launch", "getGrades", "putGrades">>

\* the run got past getUserId and returned
RunReturned == pc = "done" /\ pos # 0
\* the run was aborted at getUserId
RunAborted == pc = "done" /\ pos = 0

\* C1: fault isolation in a module batch. When processModuleItems has returned,
\* every item of a dispatched group has run its handler to the handler's own
\* end, whatever its siblings did (a handler that succeeded issued its complete
\* call sequence, a non-skippable video play, progress, end), the task is
\* completed, and the completed count is the number of handlers that succeeded.
C1_FaultIsolation ==
    (mode = "module" /\ RunReturned) =>
        /\ tasks[runTask].status = "completed"
        /\ \A i \in DOMAIN items :
                items[i].type \in Dispatchable =>
                    /\ HandlerSucceeded(i) \/ HandlerFailed(i)
                    /\ HandlerSucceeded(i) => CallsOf(i) = FullCalls(i)
        /\ completedCount = Cardinality({i \in DOMAIN items : HandlerSucceeded(i)})
        /\ tasks[runTask].completedItems = completedCount
        /\ tasks[runTask].message = Msg("Processed", completedCount, Len(items))

\* a module of two videos and a reading has been processed: the play call of
\* one video failed, the other video was watched in full, the reading was marked
C1_Witness ==
    /\ mode = "module" /\ RunReturned
    /\ \E i, j, k \in DOMAIN items :
        /\ items[i].type = "video" /\ Last(log[i]).what = "play" /\ HandlerFailed(i)
        /\ items[j].type = "video" /\ HandlerSucceeded(j)
        /\ CallsOf(j) = <<"metadata", "play", "progress", "end">>
        /\ items[k].type = "reading" /\ HandlerSucceeded(k)
    /\ completedCount = 2
    /\ tasks[runTask].status = "completed"

\* C4: a batch task is in status error only when getUserId failed (no handler
\* was started); a run that got past it ends completed, however many handlers
\* failed.
C4_ErrorOnlyPreflight ==
    /\ (runTask # NoTask /\ tasks[runTask].status = "error") =>
            /\ RunAborted
            /\ tasks[runTask].message = Msg("Could not get user ID", 0, 0)
            /\ \A i \in DOMAIN items : log[i] = <<>>
    /\ RunReturned => tasks[runTask].status = "completed"

\* a batch of at least two dispatched items has returned, every handler failed
C4_Witness ==
    /\ RunReturned
    /\ Cardinality({i \in DOMAIN items : HandlerFailed(i)}) >= 2
    /\ \A i \in DOMAIN items : ~HandlerSucceeded(i)
    /\ completedCount = 0
    /\ tasks[runTask].status = "completed"

\* C5: when getUserId yields no id the batch is aborted: after that step the run
\* has returned, the task is in status error and no handler call has been
\* issued for any item; and none is issued later.
C5_IdentityFailureAborts ==
    /\ [][\A r \in UserIdResponses :
            (UserIdReturns(r) /\ ~(Ok(r) /\ r.body = "id")) =>
                /\ pc' = "done"
                /\ tasks'[runTask].status = "error"
                /\ \A i \in DOMAIN items : log'[i] = <<>>]_vars
    /\ [](RunAborted => \A i \in DOMAIN items : log[i] = <<>>)

\* getUserId failed for a batch holding a video, a reading and a programming item
C5_Witness ==
    /\ RunAborted
    /\ \E i, j, k \in DOMAIN items :
        /\ items[i].type = "video"
        /\ items[j].type = "reading"
        /\ items[k].type = "programming"
    /\ \A i \in DOMAIN items : log[i] = <<>>
    /\ tasks[runTask].status = "error"

\* item i's handler has settled, as its log tells
HandlerSettled(i) == HandlerSucceeded(i) \/ HandlerFailed(i)

\* C6: group ordering within one module. No call of a reading's handler has been
\* issued while a video of the same module has not settled, and no call of a
\* programming item's handler while a reading of the same module has not settled.
C6_GroupOrdering ==
    \A i, j \in DOMAIN items :
        (items[i].mod = items[j].mod /\ log[j] # <<>>) =>
            /\ (items[i].type = "video" /\ items[j].type = "reading") => HandlerSettled(i)
            /\ (items[i].type = "reading" /\ items[j].type = "programming") =>
                    HandlerSettled(i)

\* a module with a video, a reading and a programming item: the programming
\* handler has issued a call, after the video failed and the reading was marked
C6_Witness ==
    \E i, j, k \in DOMAIN items :
        /\ items[i].mod = items[j].mod /\ items[j].mod = items[k].mod
        /\ items[i].type = "video" /\ HandlerFailed(i)
        /\ items[j].type = "reading" /\ HandlerSucceeded(j)
        /\ items[k].type = "programming" /\ log[k] # <<>>

\* what the handler of a video that is not skip-eligible logs up to its end call
NoSkipTrace(i) ==
    << Call("metadata", 0), Resp("metadata", R(200, "noskip")),
       Call("play", 0), Resp("play", R(200, "")),
       Call("progress", TimeCommitment(i)), Resp("progress", R(204, "")),
       Timer(3000), Call("end", 0) >>

\* C7: step order of a video that is not skip-eligible. Its calls are play, then
\* progress with viewedUpTo = item.timeCommitment, then end; progress is issued
\* only after play returned 200, end only after progress returned 204 and the
\* 3000 ms delay elapsed. The handler's log is a prefix of NoSkipTrace, or such
\* a prefix followed by the response that ended the handler.
C7_VideoStepOrder ==
    \A i \in DOMAIN items :
        (items[i].type = "video" /\ MetadataSays(i, FALSE)) =>
            LET n == Len(log[i]) IN
            /\ n <= Len(NoSkipTrace(i)) + 1
            /\ \A k \in 1..(n - 1) : log[i][k] = NoSkipTrace(i)[k]
            /\ \/ n <= Len(NoSkipTrace(i)) /\ log[i][n] = NoSkipTrace(i)[n]
               \/ /\ log[i][n].ev = "resp"
                  /\ log[i][n - 1].ev = "call"
                  /\ log[i][n].what = log[i][n - 1].what

\* a video that is not skip-eligible has been watched to its end
C7_Witness ==
    \E i \in DOMAIN items :
        /\ items[i].type = "video" /\ MetadataSays(i, FALSE)
        /\ HandlerSucceeded(i)
        /\ log[i] = NoSkipTrace(i) \o <<Resp("end", R(200, ""))>>

\* C8: skip short-circuit. The Watcher of a video whose metadata has can_skip
\* issues the end call and nothing else: no play, no progress, no delay.
C8_SkipShortCircuit ==
    \A i \in DOMAIN items :
        (items[i].type = "video" /\ MetadataSays(i, TRUE)) =>
            /\ CallsOf(i) = <<"metadata", "end">>
            /\ \A k \in 1..Len(log[i]) : log[i][k].ev # "timer"
            /\ Len(log[i]) <= 4
            /\ Len(log[i]) = 4 => Last(log[i]).what = "end" /\ HandlerSettled(i)

\* a skip-eligible video has been ended
C8_Witness ==
    \E i \in DOMAIN items :
        /\ items[i].type = "video" /\ MetadataSays(i, TRUE)
        /\ HandlerSucceeded(i)
        /\ Len(log[i]) = 4

\* the responses item i's handler got to its calls of a kind, and the number of
\* those calls
ResponsesTo(i, kind) ==
    {log[i][k].val : k \in {x \in 1..Len(log[i]) :
                                log[i][x].ev = "resp" /\ log[i][x].what = kind}}
CallCount(i, kind) ==
    Cardinality({k \in 1..Len(CallsOf(i)) : CallsOf(i)[k] = kind})

\* C9: video handler abort on failure. After a play response other than 200 no
\* progress or end call is issued; after a progress response other than 204 no
\* end call is issued; the handler has failed, and no call is issued twice.
C9_VideoAbortOnFailure ==
    \A i \in DOMAIN items :
        items[i].type = "video" =>
            /\ ResponsesTo(i, "play") \ {200} # {} =>
                    /\ HandlerFailed(i)
                    /\ CallCount(i, "progress") = 0
                    /\ CallCount(i, "end") = 0
            /\ ResponsesTo(i, "progress") \ {204} # {} =>
                    /\ HandlerFailed(i)
                    /\ CallCount(i, "end") = 0
            /\ \A kind \in {"metadata", "play", "progress", "end"} : CallCount(i, kind) <= 1

\* a batch has returned in which one video's play call and another video's
\* progress call were answered with the wrong status
C9_Witness ==
    /\ RunReturned
    /\ \E i, j \in DOMAIN items :
        /\ items[i].type = "video" /\ ResponsesTo(i, "play") = {204}
        /\ items[j].type = "video" /\ ResponsesTo(j, "progress") = {200}
        /\ HandlerFailed(i) /\ HandlerFailed(j)

\* C10: no handler is invoked for an item of type quiz, peer-review or unknown,
\* in a module batch or an all-modules batch.
C10_NoHandlerForOtherTypes ==
    \A i \in DOMAIN items :
        items[i].type \notin Dispatchable => log[i] = <<>> /\ h[i] = "none"

\* a batch holding a quiz and an unknown item has returned, its video done
C10_Witness ==
    /\ RunReturned
    /\ \E i, j, k \in DOMAIN items :
        /\ items[i].type = "video" /\ HandlerSucceeded(i)
        /\ items[j].type = "quiz"
        /\ items[k].type = "unknown"

\* the responses item i's handler got to its calls of a kind, with their bodies
BodiesTo(i, kind) ==
    {<<log[i][k].val, log[i][k].body>> :
        k \in {x \in 1..Len(log[i]) : log[i][x].ev = "resp" /\ log[i][x].what = kind}}

\* C12: guard of the programming-assignment handler. The grade PUT is issued
\* only after a launch response with elements and a successful grade fetch;
\* after a launch response without elements, or a failed one, nothing more is
\* called; after a failed grade fetch no PUT is issued; the handler has failed.
C12_LtiGuard ==
    \A i \in DOMAIN items :
        items[i].type = "programming" =>
            /\ CallCount(i, "putGrades") > 0 =>
                    /\ BodiesTo(i, "launch") = {<<200, "elements">>}
                    /\ BodiesTo(i, "getGrades") = {<<200, "grades">>}
            /\ BodiesTo(i, "launch") \ {<<200, "elements">>} # {} =>
                    /\ HandlerFailed(i)
                    /\ CallCount(i, "getGrades") = 0
                    /\ CallCount(i, "putGrades") = 0
            /\ BodiesTo(i, "getGrades") \ {<<200, "grades">>} # {} =>
                    /\ HandlerFailed(i)
                    /\ CallCount(i, "putGrades") = 0

\* two programming items: the launch data of one came back without elements,
\* the other went through launch, grade fetch and PUT
C12_Witness ==
    \E i, j \in DOMAIN items :
        /\ items[i].type = "programming" /\ items[j].type = "programming"
        /\ BodiesTo(i, "launch") = {<<200, "empty">>} /\ HandlerFailed(i)
        /\ Len(log[i]) = 2
        /\ HandlerSucceeded(j) /\ CallsOf(j) = <<"launch", "getGrades", "putGrades">>

\* C13: reading handler. A reading is counted as completed exactly when the body
\* of the response to its mark-complete call holds the completion marker;
\* otherwise its handler has failed and the count has not moved for it.
C13_ReadingMarker ==
    /\ \A i \in DOMAIN items :
        (items[i].type = "reading" /\ Len(log[i]) = 2) =>
            /\ h[i] = "ok" <=> log[i][2].body = "Completed"
            /\ h[i] = "failed" <=> log[i][2].body # "Completed"
    /\ completedCount = Cardinality({i \in DOMAIN items : HandlerSucceeded(i)})

\* a batch of two readings has returned: one answered with the marker, one without
C13_Witness ==
    /\ RunReturned
    /\ \E i, j \in DOMAIN items :
        /\ items[i].type = "reading" /\ log[i][2].body = "Completed" /\ h[i] = "ok"
        /\ items[j].type = "reading" /\ log[j][2].body = "other" /\ h[j] = "failed"
    /\ completedCount = 1
    /\ tasks[runTask].completedItems = 1

\* C21: all-modules mode is sequential. No call of a handler of an item of a
\* later module has been issued while a dispatched item of an earlier module
\* has not settled; the one counter of the run is at every moment the number
\* of handlers, over the whole course, that succeeded, and the task holds it
\* when the run has returned.
C21_ModulesSequential ==
    mode = "all" =>
        /\ \A i, j \in DOMAIN items :
                (/\ items[i].mod < items[j].mod
                 /\ items[i].type \in Dispatchable
                 /\ log[j] # <<>>) => HandlerSettled(i)
        /\ completedCount = Cardinality({i \in DOMAIN items : HandlerSucceeded(i)})
        /\ RunReturned =>
                /\ tasks[runTask].status = "completed"
                /\ tasks[runTask].message = Msg("Processed", completedCount, Len(items))
                /\ completedCount > 0 => tasks[runTask].completedItems = completedCount

\* a course of two modules has been processed: the programming item of the
\* first module and the video of the second both succeeded
C21_Witness ==
    /\ mode = "all" /\ RunReturned /\ nMods = 2
    /\ \E i, j \in DOMAIN items :
        /\ items[i].mod = 1 /\ items[i].type = "programming" /\ HandlerSucceeded(i)
        /\ items[j].mod = 2 /\ items[j].type = "video" /\ HandlerSucceeded(j)
    /\ completedCount = 2

\* the handlers that have returned without throwing, as the mappers saw them
Succeeded == {i \in DOMAIN h : h[i] = "ok"}

\* C31: no lost counter updates. In every interleaving of the handlers of a
\* group, the step in which a handler settles adds one to the run's counter
\* when the handler succeeded and nothing when it failed, and stores the
\* counter in the task's completedItems; so the counter is at every moment,
\* and when the group has settled, the number of handlers that succeeded.
C31_NoLostUpdate ==
    /\ [][\A i \in DOMAIN h :
            (h[i] \notin Settled /\ h'[i] \in Settled) =>
                /\ completedCount' = completedCount + (IF h'[i] = "ok" THEN 1 ELSE 0)
                /\ tasks'[runTask].completedItems = completedCount']_vars
    /\ [](runTask # NoTask =>
            /\ completedCount = Cardinality(Succeeded)
            /\ tasks[runTask].completedItems = completedCount)

\* a group of three videos has settled: the first succeeded after more calls
\* than the third, which succeeded too, and the second failed
C31_Witness ==
    /\ Len(items) = 3
    /\ \A i \in 1..3 : items[i].type = "video"
    /\ h = <<"ok", "failed", "ok">>
    /\ Len(log[1]) > Len(log[3])
    /\ completedCount = 2
    /\ tasks[runTask].completedItems = 2

\* C32: progress after each item. The step in which the handler of an item
\* returns adds one to the run's counter and writes to the task the progress
\* round(completedCount / totalItems * 100), totalItems counting every item of
\* the batch, dispatched or not; in module mode and in all-modules mode.
C32_ProgressPerItem ==
    [][\A i \in DOMAIN h :
            (h[i] \notin Settled /\ h'[i] = "ok") =>
                /\ completedCount' = completedCount + 1
                /\ tasks'[runTask].progress = RoundPct(completedCount', Len(items))]_vars

\* the statement of C32 for processModuleItems alone
ModuleProgressPerItem ==
    [][\A i \in DOMAIN h :
            (mode = "module" /\ h[i] \notin Settled /\ h'[i] = "ok") =>
                /\ completedCount' = completedCount + 1
                /\ tasks'[runTask].progress = RoundPct(completedCount', Len(items))]_vars

\* C33: batch termination. When every call is answered, a batch that was
\* accepted leaves status running: its run returns and the task is completed
\* or error.
C33_BatchTerminates ==
    (pc \in {"userId", "group"}) ~>
        (pc = "done" /\ tasks[runTask].status \in {"completed", "error"})

\* an all-modules batch of two modules has returned, a handler of the first
\* module having failed
C33_Witness ==
    /\ pc = "done" /\ mode = "all" /\ nMods = 2
    /\ \E i, j \in DOMAIN items :
        /\ items[i].mod = 1 /\ h[i] = "failed"
        /\ items[j].mod = 2 /\ h[j] \in Settled
    /\ tasks[runTask].status = "completed"

\* C34: final progress of a module batch. When the task of a module batch
\* that holds items is completed, its progress is
\* round(completedItems / totalItems * 100) for the final count, whichever
\* handlers failed.
C34_FinalProgress ==
    (mode = "module" /\ RunReturned /\ Len(items) > 0
        /\ tasks[runTask].status = "completed") =>
            tasks[runTask].progress = RoundPct(tasks[runTask].completedItems, Len(items))

\* the statement of C34 for the module batches in which a handler succeeded
\* or a group other than the videos was dispatched
FinalProgressPastStart ==
    (mode = "module" /\ RunReturned /\ Len(items) > 0
        /\ (completedCount > 0 \/ \E i \in DOMAIN items : items[i].type \in {"reading", "programming"})) =>
            tasks[runTask].progress = RoundPct(tasks[runTask].completedItems, Len(items))

\* C22: a call without response is bounded by a timeout. Whenever a handler
\* awaits a call that gets no response, the batch goes on and its task reaches
\* completed.
C22_TimeoutBounded ==
    (\E i \in DOMAIN h : h[i] = "lost") ~> (pc = "done" /\ tasks[runTask].status = "completed")

\* the category the taxonomy table gives a lower-cased string, "" for none
TableCategory(str, exact) ==
    CASE exact /\ Is(str, "lecture") -> "video"
      [] exact /\ Is(str, "supplement") -> "reading"
      [] (exact /\ (Is(str, "staffgraded") \/ Is(str, "ungradedassignment")))
            \/ Includes(str, "exam") \/ Includes(str, "quiz") -> "quiz"
      [] (exact /\ Is(str, "gradedlti")) \/ Includes(str, "programming") -> "programming"
      [] Includes(str, "peer") -> "peer-review"
      [] OTHER -> ""

\* the path as the set of the segments that have a slash on both sides
Enclosed(path) == [k \in 1..(Len(path) - 1) |-> path[k]]
PathCategory(path) ==
    CASE Includes(path, "lecture") -> "video"
      [] Includes(path, "supplement") -> "reading"
      [] OTHER -> TableCategory(path, FALSE)

TaxonomyCategory(typeName, resourcePath) ==
    IF TableCategory(ToLowerCase(typeName), TRUE) # ""
    THEN TableCategory(ToLowerCase(typeName), TRUE)
    ELSE IF PathCategory(Enclosed(ToLowerCase(resourcePath))) # ""
         THEN PathCategory(Enclosed(ToLowerCase(resourcePath)))
         ELSE "unknown"

\* C24: classification follows the taxonomy table. The category of a raw item
\* is the one the table gives its lower-cased type-name; only when the table
\* gives none, the one its resource path gives; unknown when neither does.
C24_Taxonomy ==
    classified.pc = "item" =>
        classified.type = TaxonomyCategory(classified.typeName, classified.resourcePath)

\* the statement of C24 for detectItemType alone
GuidedFollowsTaxonomy ==
    (classified.pc = "item" /\ classified.api = "guided") =>
        classified.type = TaxonomyCategory(classified.typeName, classified.resourcePath)

\* the modules a call of the classifier returned
ModulesReturned ==
    IF classified.pc \in {"module", "all"}
    THEN {classified.result[k] : k \in DOMAIN classified.result} \ {Null}
    ELSE {}

RECURSIVE SumOver(_, _)
SumOver(f, set) ==
    IF set = {} THEN 0
    ELSE LET x == CHOOSE y \in set : TRUE IN f[x] + SumOver(f, set \ {x})

\* C23: count invariant. For every module the classifier returned, counts.total
\* is items.length, and is the sum of the five named counts plus the number of
\* unknown items.
C23_CountInvariant ==
    \A m \in ModulesReturned :
        /\ m.counts["total"] = Len(m.items)
        /\ m.counts["total"] =
                SumOver(m.counts, Buckets)
                    + Cardinality({k \in DOMAIN m.items : m.items[k] = "unknown"})
        /\ \A b \in Buckets :
                m.counts[b] = Cardinality({k \in DOMAIN m.items : m.items[k] = b})

\* getAllModulesData returned two modules, one of them holding a video and an
\* unknown item
C23_Witness ==
    /\ classified.pc = "all"
    /\ Len(classified.result) = 2
    /\ \E k \in 1..2 :
        /\ classified.result[k].items = <<"video", "unknown">>
        /\ classified.result[k].counts["total"] = 2
        /\ classified.result[k].counts["video"] = 1

\* the ids of the module hold no id twice
NoIdTwice(m) == \A a, b \in DOMAIN m.ids : a # b => m.ids[a] # m.ids[b]

\* C37: each item id at most once. The items of a module the classifier
\* returned hold no item id twice: an item listed or referenced several times
\* in the raw data of the module appears once and is counted once.
C37_ItemsOnce ==
    \A m \in ModulesReturned : NoIdTwice(m) /\ m.counts["total"] = Len(m.ids)

\* the statement of C37 for getModuleData of the course materials: the items
\* are the items referenced, each once
MaterialsItemsOnce ==
    (classified.pc = "module" /\ classified.api = "materials") =>
        \A m \in ModulesReturned :
            /\ NoIdTwice(m)
            /\ m.counts["total"] = Len(m.ids)
            /\ {m.ids[k] : k \in DOMAIN m.ids} =
                    LET refs == classified.course[classified.moduleNumber]
                    IN  {refs[k] : k \in DOMAIN refs} \ {id \in ElementIds : classified.linked[id] = 0}

\* the categories of the items the n-th module of the course holds, as a bag:
\* category -> number of items
CategoriesAt(n) ==
    LET c == classified.course[n] IN
    IF classified.api = "guided"
    THEN [b \in ItemTypes |->
            Cardinality({k \in DOMAIN c.items :
                DetectItemType(RawItemSeq[c.items[k]].typeName,
                               RawItemSeq[c.items[k]].resourcePath) = b})]
    ELSE [b \in ItemTypes |->
            Cardinality({id \in {c[k] : k \in DOMAIN c} :
                /\ classified.linked[id] # 0
                /\ DetectMaterialsType(RawItemSeq[classified.linked[id]].typeName) = b})]

\* C25: module resolution boundary. A request for module number N returns the
\* module at position N of the ordered list counted from 1 (index N-1), and a
\* request for 0, a negative number or a number above the module count returns
\* null.
C25_ModuleResolution ==
    classified.pc = "module" =>
        LET n == classified.moduleNumber
            r == classified.result[1]
        IN  /\ (n < 1 \/ n > Len(classified.course)) => r = Null
            /\ r # Null =>
                    /\ n \in 1..Len(classified.course)
                    /\ \A b \in ItemTypes :
                            Cardinality({k \in DOMAIN r.items : r.items[k] = b})
                                = CategoriesAt(n)[b]
            /\ (/\ n \in 1..Len(classified.course)
                /\ classified.fetched
                /\ classified.api = "guided" => classified.course[n].modules) => r # Null

\* module 2 of a course of two weeks was requested, the second week holding
\* an exam and the first a lecture: the module returned holds the quiz
C25_Witness ==
    /\ classified.pc = "module" /\ classified.api = "guided"
    /\ classified.moduleNumber = 2
    /\ Len(classified.course) = 2
    /\ classified.course[1] = [modules |-> TRUE, items |-> <<1>>]
    /\ classified.course[2] = [modules |-> TRUE, items |-> <<2>>]
    /\ classified.result[1] # Null
    /\ classified.result[1].items = <<"quiz">>

\* C26: progress range. Every progress value a task holds is an integer
\* between 0 and 100.
C26_ProgressRange ==
    \A t \in DOMAIN tasks : tasks[t].progress \in 0..100

\* C14: progress is monotonic. No step writes to a task a progress value lower
\* than the one the task holds (a value that is not a number compares with none).
C14_ProgressMonotonic ==
    [][\A t \in DOMAIN tasks :
            (tasks[t].progress # NaN /\ tasks'[t].progress # NaN) =>
                tasks'[t].progress >= tasks[t].progress]_vars

\* ======================================================================
\* Properties of the registry (SpecReg)
\* ======================================================================
\* the registry holds a task under key that has not terminated
Running(key) == activeTasks[key] # NoTask /\ tasks[activeTasks[key]].status = "running"

\* C2: at most one task per key. While the registry holds a running task under
\* a key, no step stores another task under that key, and a start request for
\* that key (module skip, all-modules skip, solver) is answered "already
\* running" and leaves the registry as it is.
C2_AtMostOneTask ==
    [][/\ \A k \in Keys :
            Running(k) => activeTasks'[k] \in {activeTasks[k], NoTask}
       /\ \A t \in Tabs, n \in ModuleNumbers, total \in RegModuleSizes :
            (Running(ModuleKey(n)) /\ RegStartModuleSkip(t, n, total)) =>
                response' = "already running" /\ activeTasks' = activeTasks
       /\ \A t \in Tabs, k \in 0..1, total \in RegModuleSizes :
            (Running(AllModulesKey) /\ RegStartAllModulesSkip(t, k, total)) =>
                response' = "already running" /\ activeTasks' = activeTasks
       /\ \A t \in Tabs, n \in ModuleNumbers :
            (Running(SolverKey(n)) /\ RegStartSolver(t, n)) =>
                response' = "already running" /\ activeTasks' = activeTasks
      ]_vars

\* the batch runs in flight for a key
BatchesInFlight(key) ==
    {r \in DOMAIN runs :
        runs[r].kind \in {"module", "all"} /\ runs[r].key = key /\ InFlight(r)}

\* C3: at most one batch per target. There are never two runs of
\* processModuleItems or processAllModules in flight for the same key.
C3_OneBatchPerKey ==
    \A key \in Keys : Cardinality(BatchesInFlight(key)) <= 1

\* ======================================================================
\* Properties of solver tasks (SpecSolver)
\* ======================================================================
Terminal == {"completed", "error"}

\* the step is one of run r
StepOf(r) == r \in DOMAIN runs /\ InFlight(r) /\ runs'[r] # runs[r]

\* C15: a terminal status is set at most once. Once the task of a run is
\* completed or error, no later step of that run changes the task's status or
\* schedules another purge.
C15_TerminalOnce ==
    [][\A r \in DOMAIN runs :
            (StepOf(r) /\ tasks[runs[r].task].status \in Terminal) =>
                /\ tasks'[runs[r].task].status \in {tasks[runs[r].task].status, "dead"}
                /\ timers' = timers]_vars

\* C16: paused is terminal for the run. A task becomes paused only in a step of
\* handleStopSolver, and the status of a paused task never changes again.
C16_PausedIsFinal ==
    [][\A t \in DOMAIN tasks :
            /\ (tasks[t].status # "paused" /\ tasks'[t].status = "paused") => StopSolver(1)
            /\ tasks[t].status = "paused" => tasks'[t].status \in {"paused", "dead"}]_vars

\* the registry holds a task under key that is completed or error
TerminalAt(key) == activeTasks[key] # NoTask /\ tasks[activeTasks[key]].status \in Terminal

\* C17: retention. A terminal task stays in the registry with its status and
\* message as they are until the purge timer of its own terminal transition
\* fires (the last one scheduled for its key), unless its tab closes.
C17_Retention ==
    [][\A k \in Keys :
            TerminalAt(k) =>
                IF activeTasks'[k] = NoTask
                THEN \/ PurgeTimerFires(k) /\ timers[k] = 1
                     \/ \E t \in Tabs : TabClosed(t)
                ELSE /\ activeTasks'[k] = activeTasks[k]
                     /\ tasks'[activeTasks[k]].status = tasks[activeTasks[k]].status
                     /\ tasks'[activeTasks[k]].message = tasks[activeTasks[k]].message]_vars

\* C28: a running task leaves the registry only when its tab closes; no purge
\* timer removes it.
C28_RunningNotPurged ==
    [][\A k \in Keys :
            (Running(k) /\ activeTasks'[k] = NoTask) =>
                \E t \in Tabs : TabClosed(t) /\ tasks[activeTasks[k]].tabId = t]_vars

\* C29: the updates of a run reach its own task only. A step of a run leaves
\* the registry's entries as they are and changes no task object but the one
\* created for the run.
C29_OwnTaskOnly ==
    [][\A r \in DOMAIN runs :
            StepOf(r) =>
                /\ activeTasks' = activeTasks
                /\ \A t \in DOMAIN tasks :
                        t # runs[r].task => tasks'[t] \in {tasks[t], Dead}]_vars

\* the registry holds under key what it held
SameUnder(key) ==
    /\ activeTasks'[key] = activeTasks[key]
    /\ activeTasks[key] # NoTask => tasks'[activeTasks[key]] = tasks[activeTasks[key]]

\* C39: registry updates are local to their key. The updateTaskProgress and
\* updateTaskStatus calls of a run change no field of a task stored under
\* another key than the run's and no entry of the registry; when no task is
\* stored under the run's key they leave every stored task as it is and
\* schedule no purge.
C39_UpdatesLocal ==
    [][\A r \in DOMAIN runs :
            StepOf(r) =>
                /\ \A k \in Keys \ {runs[r].key} : SameUnder(k)
                /\ activeTasks' = activeTasks
                /\ activeTasks[runs[r].key] = NoTask =>
                        timers' = timers /\ \A k \in Keys : SameUnder(k)]_vars

\* a module batch has completed with its progress written while the task of
\* an all-modules batch, stored under its own key, is as it was created
C39_Witness ==
    /\ activeTasks[ModuleKey(1)] # NoTask
    /\ activeTasks[AllModulesKey] # NoTask
    /\ tasks[activeTasks[ModuleKey(1)]].status = "completed"
    /\ tasks[activeTasks[ModuleKey(1)]].progress = 100
    /\ tasks[activeTasks[AllModulesKey]] =
            ModuleTask(tasks[activeTasks[AllModulesKey]].tabId, 1,
                       Msg("Starting all modules skip", 0, 0))

\* C30: solver admission is atomic. A START_SOLVER request starts a run only
\* when the registry holds no task under its key at the moment the task is
\* inserted: of two requests for one key, one at most is admitted.
C30_AdmissionAtomic ==
    [][(/\ Len(runs') = Len(runs) + 1
        /\ runs'[Len(runs')].kind = "solver") =>
            activeTasks[runs'[Len(runs')].key] = NoTask]_vars

\* ======================================================================
\* Properties of tab teardown (SpecTabs) and of the stop requests (SpecWatcher)
\* ======================================================================
\* the registry holds under key a task of tab tabId
OwnedBy(key, tabId) == activeTasks[key] # NoTask /\ tasks[activeTasks[key]].tabId = tabId

\* key keeps what it held: its registry entry, the task object, its solver and
\* watcher entries
KeyUntouched(key) ==
    /\ activeTasks'[key] = activeTasks[key]
    /\ activeTasks[key] # NoTask => tasks'[activeTasks[key]] = tasks[activeTasks[key]]
    /\ key \in solvers' <=> key \in solvers
    /\ key \in watchers' <=> key \in watchers

\* C18: owning-surface teardown. When a tab closes, every key holding a task of
\* that tab loses its registry entry, its solver entry and its watcher entry in
\* that step; every other key keeps its entry, its task object unmodified, and
\* its solver and watcher entries.
C18_TabTeardown ==
    [][\A t \in Tabs :
            TabClosed(t) =>
                \A k \in Keys :
                    IF OwnedBy(k, t)
                    THEN /\ activeTasks'[k] = NoTask
                         /\ k \notin solvers'
                         /\ k \notin watchers'
                    ELSE KeyUntouched(k)]_vars

\* a tab closed under a running solver and a running watcher (their runs are
\* still in flight, their entries are gone) while another tab's module task
\* is still in the registry
Orphaned(key) ==
    /\ activeTasks[key] = NoTask
    /\ key \notin solvers \cup watchers
    /\ \E r \in DOMAIN runs : InFlight(r) /\ runs[r].key = key

C18_Witness ==
    /\ Orphaned(SolverKey(1))
    /\ Orphaned(WatcherKey(1))
    /\ \E t \in Tabs : OwnedBy(ModuleKey(1), t) /\ tasks[activeTasks[ModuleKey(1)]].status = "running"

\* the effect of a stop request on the task under key: paused with a stop
\* message, progress and presence as before, every other task and every run
\* as before
StopFrame(key) ==
    /\ activeTasks' = activeTasks
    /\ runs' = runs
    /\ tasks'[activeTasks[key]].status = "paused"
    /\ tasks'[activeTasks[key]].message # tasks[activeTasks[key]].message
    /\ tasks'[activeTasks[key]].progress = tasks[activeTasks[key]].progress
    /\ \A t \in DOMAIN tasks : t # activeTasks[key] => tasks'[t] = tasks[t]

\* C19: a stop request flips the status of the task it targets to paused with
\* a stop message, and leaves its progress, its presence in the registry, every
\* other task and every run as they were.
C19_StopOnlyPauses ==
    [][/\ (StopSolver(1) /\ activeTasks[SolverKey(1)] # NoTask) => StopFrame(SolverKey(1))
       /\ (StopWatcher /\ activeTasks[WatcherKey(1)] # NoTask) => StopFrame(WatcherKey(1))]_vars

\* ======================================================================
\* Properties of the solver (SpecSolve)
\* ======================================================================
\* solve has issued the call; the call has returned with success
Issued(call) == \E k \in DOMAIN gradedSolver.calls : gradedSolver.calls[k] = call
CallOk(call) ==
    \E k \in DOMAIN gradedSolver.results :
        gradedSolver.calls[k] = call /\ gradedSolver.results[k]

\* the task of the solver run
SolverTaskStatus == tasks[activeTasks[SolverKey(1)]].status

\* C35: a solver task is completed only when solve() saved the responses and
\* submitted the draft in that run, or found the item already passed; after
\* every other exit of solve() the task is in status error.
C35_CompletedOnlySolved ==
    (gradedSolver.pc = "done" /\ gradedSolver.via = "runSolver") =>
        IF (CallOk("saveResponses") /\ CallOk("submitDraft")) \/ gradedSolver.why = "passed"
        THEN SolverTaskStatus = "completed"
        ELSE SolverTaskStatus = "error"

\* the calls of solve() in the order of the protocol
ProtocolCalls ==
    <<"getState", "initiateAttempt", "retrieveQuestions", "getResponse",
      "saveResponses", "submitDraft", "delay", "getGrade">>

\* C36: solver protocol order. An attempt is initiated only when the queried
\* state allows START_NEW_ATTEMPT, the item is not passed and attempts remain;
\* the responses are saved only after the attempt was initiated and the
\* questions retrieved, the draft is submitted only after the save succeeded,
\* the grade is queried only after the submit succeeded, no call is issued
\* twice or out of order; and a solve() that initiated an attempt has, when it
\* ends, submitted the draft, or thrown, or logged an error.
C36_ProtocolOrder ==
    gradedSolver.pc # "idle" =>
        /\ Len(gradedSolver.calls) <= Len(ProtocolCalls)
        /\ \A k \in DOMAIN gradedSolver.calls : gradedSolver.calls[k] = ProtocolCalls[k]
        /\ Issued("initiateAttempt") =>
                /\ gradedSolver.state[1].allowedAction = "START_NEW_ATTEMPT"
                /\ gradedSolver.state[1].outcome # "passed"
                /\ gradedSolver.state[1].attemptsRemaining > 0
        /\ Issued("saveResponses") =>
                CallOk("initiateAttempt") /\ CallOk("retrieveQuestions")
        /\ Issued("submitDraft") => CallOk("saveResponses")
        /\ Issued("getGrade") => CallOk("submitDraft")
        /\ (gradedSolver.pc = "done" /\ CallOk("initiateAttempt")) =>
                \/ CallOk("submitDraft")
                \/ gradedSolver.exit = "thrown"
                \/ gradedSolver.logged

\* runSolver's solve(null) initiated an attempt, retrieved the questions and
\* ended by throwing at the connector: the task is in status error
C36_Witness ==
    /\ gradedSolver.pc = "done" /\ gradedSolver.via = "runSolver"
    /\ gradedSolver.calls = <<"getState", "initiateAttempt", "retrieveQuestions">>
    /\ CallOk("initiateAttempt") /\ CallOk("retrieveQuestions")
    /\ gradedSolver.exit = "thrown"
    /\ SolverTaskStatus = "error"

\* solve() with a connector ran the whole protocol, the grade came back passed
FullProtocol ==
    /\ gradedSolver.pc = "done"
    /\ gradedSolver.calls = ProtocolCalls
    /\ CallOk("getGrade")

\* ======================================================================
\* Properties of the grade handler (SpecGrades)
\* ======================================================================
\* handler k has built its payload
PayloadBuilt(k) == grades.lti[k].payload # NoPayload

\* C20: pre-flight failure in the registry. After a module-skip start request
\* whose module data could not be fetched, the registry holds under the key of
\* the module a task with status error and the error as its message.
C20_PreflightRecorded ==
    response = "Could not fetch module data" =>
        /\ activeTasks[ModuleKey(1)] # NoTask
        /\ tasks[activeTasks[ModuleKey(1)]].status = "error"
        /\ tasks[activeTasks[ModuleKey(1)]].message = Msg("Could not fetch module data", 0, 0)

\* C27: no lost grade. When the handlers of the programming items of a module
\* (different items) have all succeeded, the grade document the platform holds
\* has a passed entry with grade 1.0 for each of the items, and an entry for
\* every item a handler found in the document.
C27_NoLostGrade ==
    (/\ \A k \in GradeHandlers : grades.lti[k].pc = "done"
     /\ \A j, k \in GradeHandlers : j # k => grades.lti[j].itemId # grades.lti[k].itemId) =>
        \A k \in GradeHandlers :
            /\ \E x \in DOMAIN grades.doc :
                    /\ grades.doc[x].itemId = grades.lti[k].itemId
                    /\ grades.doc[x].isPassed
                    /\ grades.doc[x].grade = FullGrade
            /\ \A y \in DOMAIN grades.lti[k].fetched :
                    \E x \in DOMAIN grades.doc :
                        grades.doc[x].itemId = grades.lti[k].fetched[y].itemId

\* C11: grade-merge correctness. The payload of the PUT holds every entry of the
\* fetched document, in place and unchanged unless it is the entry of this
\* item; the entry of this item is there once, passed with grade 1.0, added at
\* the end if the document had none; overallGrade is the number of passed
\* entries over the number of entries of the payload.
C11_GradeMerge ==
    \A k \in GradeHandlers :
        PayloadBuilt(k) =>
            LET id == grades.lti[k].itemId
                old == grades.lti[k].fetched
                new == grades.lti[k].payload.itemGrades
                had == \E x \in 1..Len(old) : old[x].itemId = id
            IN  /\ Len(new) = (IF had THEN Len(old) ELSE Len(old) + 1)
                /\ \A x \in 1..Len(old) :
                        IF old[x].itemId = id
                        THEN new[x] = [itemId |-> id, isPassed |-> TRUE, grade |-> 100]
                        ELSE new[x] = old[x]
                /\ ~had => new[Len(new)] = [itemId |-> id, isPassed |-> TRUE, grade |-> 100]
                /\ Cardinality({x \in 1..Len(new) : new[x].itemId = id}) = 1
                /\ grades.lti[k].payload.overallGrade =
                        <<Cardinality({x \in 1..Len(new) : new[x].isPassed}), Len(new)>>

\* a handler has PUT its payload for a document of two other items, one of them
\* not passed: three entries, overallGrade 2/3
C11_Witness ==
    \E k \in GradeHandlers :
        /\ grades.lti[k].pc = "done"
        /\ Len(grades.lti[k].fetched) = 2
        /\ \A x \in 1..2 : grades.lti[k].fetched[x].itemId # grades.lti[k].itemId
        /\ Len(grades.lti[k].payload.itemGrades) = 3
        /\ grades.lti[k].payload.overallGrade = <<2, 3>>

====
